---------------------------- MODULE Spec2Model ----------------------------
(***************************************************************************)
(* Conversation state and workflow-binding manager of the ai-agent         *)
(* service: ChatBindingManager, ConversationManager (turn log, context     *)
(* cache, persistence), ConversationSummarizer and WorkflowMemory.         *)
(*                                                                         *)
(* Conventions.                                                            *)
(*  - A Python dict is a TLA+ function whose DOMAIN is the set of keys.    *)
(*  - Optional[T] is <<>> (None) or <<v>>.                                 *)
(*  - A str that the code inspects (ids, message texts) is a sequence of   *)
(*    one-character strings; a literal the code emits ("User: ", "\n\n")   *)
(*    is one element of such a sequence.  Concatenation is \o.             *)
(*  - datetime.now() / time.time() read the logical clock `now`.           *)
(*  - Every operation of the program is one action; the parameter `ok`     *)
(*    of an action says whether the file-system calls it makes succeed.    *)
(***************************************************************************)
EXTENDS Integers, Sequences, FiniteSets, TLC

VARIABLES
    now,            \* logical clock read by datetime.now() and time.time()
    bindings,       \* ChatBindingManager._bindings: conversation id -> ChatBinding
    bfiles,         \* storage/chat_bindings: file name -> persisted binding document
    seenBound,      \* history: workflow each conversation was seen bound to in this process
    keptBound,      \* history: as seenBound, forgotten when the binding is deleted
    conversations,  \* ConversationManager.conversations: conversation id -> list of turns
    conversation_created_at,  \* ConversationManager._conversation_created_at
    context_cache,  \* ConversationManager._context_cache: conversation id -> CachedContext
    cache_hits,     \* ConversationManager._cache_hits
    cache_misses,   \* ConversationManager._cache_misses
    summaries,      \* ConversationSummarizer._summaries: conversation id -> summary
    cfiles,         \* storage/conversations: file name -> persisted conversation document
    appended,       \* history: turns added to a log since add_turn created it empty
    pending,        \* history: turn added last, not yet followed by get_context_string
    prevCtx,        \* history: context string returned first since the last change of the log
    references,     \* WorkflowMemory._references: spec id -> WorkflowReference
    access_order,   \* WorkflowMemory._access_order: spec ids, least recently used first
    touched,        \* history: spec id -> number of the operation that touched it last
    inserted,       \* history: spec id -> number of the operation that inserted it
    request,        \* the call or the requests about to be made, or <<>>
    sessions,       \* SessionManager._sessions: session id -> Session
    sfiles,         \* storage/sessions: file name -> content
    issued,         \* history: session id uuid4 produced -> the session created with it
    written,        \* history: <<store, key>> -> the object whose write completed last
    corrupted,      \* history: <<store, key>> whose file was damaged since that write
    store,          \* the store a run of SpecStorage exercises, and the fault it meets
    workflow_cache,         \* ConversationManager._workflow_cache: workflow id -> CachedWorkflow
    workflow_cache_hits,    \* ConversationManager._workflow_cache_hits
    workflow_cache_misses,  \* ConversationManager._workflow_cache_misses
    token_usage_history,    \* ConversationManager._token_usage_history
    tracked,        \* history: the telemetry entries made since construction
    workflow_memories,      \* ConversationManager._workflow_memories: conversation id -> WorkflowMemory
    last            \* the operation performed last, its arguments and its outcome

bindingVars == <<bindings, bfiles, seenBound, keptBound>>
convVars == <<conversations, conversation_created_at, context_cache, cache_hits,
              cache_misses, summaries, cfiles, appended, pending, prevCtx>>

memVars == <<references, access_order, touched, inserted>>

sessVars == <<sessions, sfiles, issued>>
\* the variables of the components added last; auxVars adds the request
ioVars == <<written, corrupted, store>>
wfcVars == <<workflow_cache, workflow_cache_hits, workflow_cache_misses>>
\* the telemetry and the workflow memories of the ConversationManager
telVars == <<token_usage_history, tracked, workflow_memories>>
restVars == <<sessVars, ioVars, wfcVars, telVars>>
auxVars == <<request, restVars>>

vars == <<now, bindingVars, convVars, memVars, auxVars, last>>

-----------------------------------------------------------------------------
(* Bounds of the model *)

\* the clock stops advancing here
MaxTime == 1

-----------------------------------------------------------------------------
(* Generic helpers *)

None == <<>>
Some(v) == <<v>>

\* dict without key k
Remove(f, k) == [x \in (DOMAIN f) \ {k} |-> f[x]]

\* dict with f[k] = v (insert or overwrite)
Put(f, k, v) == [x \in (DOMAIN f) \cup {k} |-> IF x = k THEN v ELSE f[x]]

EmptyDict == [x \in {} |-> 0]

Range(f) == {f[x] : x \in DOMAIN f}

-----------------------------------------------------------------------------
(* Identifiers *)

Conv1 == <<"c", "1">>
Conv2 == <<"c", "2">>
ConvIds == {Conv1, Conv2}
\* the conversations whose turn log the requests of the model address
TurnLogIds == {Conv1}
SessA == <<"s", "e", "s", "s", "_", "a">>
SessB == <<"s", "e", "s", "s", "_", "b">>
SessionIds == {SessA, SessB}
WorkflowIds == {"wf_A", "wf_B"}

Digits == {"0", "1", "2", "3", "4", "5", "6", "7", "8", "9"}
Letters == {"a", "b", "c", "d", "e", "f", "g", "h", "i", "j", "k", "l", "m",
            "n", "o", "p", "q", "r", "s", "t", "u", "v", "w", "x", "y", "z",
            "A", "B", "C", "D", "E", "F", "G", "H", "I", "J", "K", "L", "M",
            "N", "O", "P", "Q", "R", "S", "T", "U", "V", "W", "X", "Y", "Z"}

\* c.isalnum() or c in ('-', '_')
IsSafeChar(ch) == ch \in Letters \cup Digits \cup {"-", "_"}

\* the id taken as the file name as it is
safe_id_verbatim(id) == id

\* "".join(c if c.isalnum() or c in ('-', '_') else '_' for c in conversation_id)
safe_id(id) == [i \in DOMAIN id |-> IF IsSafeChar(id[i]) THEN id[i] ELSE "_"]

\* storage_dir / f"{safe_id}.json"
get_binding_path(conversation_id) == safe_id(conversation_id) \o <<".json">>

\* datetime.isoformat() and datetime.fromisoformat(): the text form of a time
isoformat(t) == <<"iso", t>>
fromisoformat(s) == s[2]

-----------------------------------------------------------------------------
(* models.py: ChatBinding *)

NewChatBinding(conversation_id, session_id, t) ==
    [conversation_id |-> conversation_id,
     session_id |-> session_id,
     created_at |-> t,
     bound_workflow_id |-> None,
     binding_locked_at |-> None,
     last_activity |-> t]

ChatBinding_is_bound(b) == b.bound_workflow_id # None

\* ChatBinding.bind without the is_bound() guard
ChatBinding_bind_unguarded(b, workflow_id, t) ==
    [raised |-> "none", err_conversation |-> None, err_workflow |-> None,
     binding |-> [b EXCEPT !.bound_workflow_id = Some(workflow_id),
                           !.binding_locked_at = Some(t),
                           !.last_activity = t]]

\* ChatBinding.bind: the outcome and the binding after the call.  The
\* ValueError message names the conversation id and the bound workflow id.
ChatBinding_bind(b, workflow_id, t) ==
    IF ChatBinding_is_bound(b)
    THEN [raised |-> "ValueError",
          err_conversation |-> Some(b.conversation_id),
          err_workflow |-> b.bound_workflow_id,
          binding |-> b]
    ELSE [raised |-> "none", err_conversation |-> None, err_workflow |-> None,
          binding |-> [b EXCEPT !.bound_workflow_id = Some(workflow_id),
                                !.binding_locked_at = Some(t),
                                !.last_activity = t]]

ChatBinding_update_activity(b, t) == [b EXCEPT !.last_activity = t]

-----------------------------------------------------------------------------
(* Files *)

\* what a file holds when its document was not written to the end: nothing
\* yet, or a prefix of the JSON text.  json.load raises on both.
Empty == [truncated |-> "empty"]
Partial == [truncated |-> "partial"]

\* the outcomes of an atomic write (temp file, dump, os.replace): it
\* succeeds, or creating the temp file, json.dump or os.replace raises
WriteOutcomes == {"ok", "create_fails", "dump_fails", "replace_fails"}

\* the points at which the process can die during an atomic write: temp file
\* created, written in part, written in full and not yet renamed
CrashPoints == {"crash_created", "crash_partial", "crash_written"}

\* the temp files a directory holds at most
MaxTempFiles == 1

\* Path.glob("*.json")
is_json_name(p) == p[Len(p)] = ".json"

is_temp_name(p) == p[1] \in {"tmp", ".tmp_"}

temp_files(files) == {p \in DOMAIN files : is_temp_name(p)}

\* the outcomes a write into the directory can have in the model
outcomes(files) ==
    IF Cardinality(temp_files(files)) < MaxTempFiles
    THEN WriteOutcomes ELSE {"ok", "create_fails"}

\* the name NamedTemporaryFile(dir=storage_dir, suffix='.tmp') picks
new_temp_path(files) ==
    <<"tmp", ToString(Cardinality(temp_files(files))), ".tmp">>

\* d without the field f
without(d, f) == [x \in (DOMAIN d) \ {f} |-> d[x]]

-----------------------------------------------------------------------------
(* chat_binding_manager.py: persistence *)

\* the dict _persist_binding writes with json.dump
BindingDocument(b) ==
    [conversation_id |-> b.conversation_id,
     session_id |-> b.session_id,
     created_at |-> isoformat(b.created_at),
     bound_workflow_id |-> b.bound_workflow_id,
     binding_locked_at |-> IF b.binding_locked_at # None
                           THEN Some(isoformat(b.binding_locked_at[1]))
                           ELSE None,
     last_activity |-> isoformat(b.last_activity)]

\* the ChatBinding _load_bindings builds from a document
BindingFromDocument(d) ==
    [conversation_id |-> d.conversation_id,
     session_id |-> d.session_id,
     created_at |-> fromisoformat(d.created_at),
     bound_workflow_id |-> IF "bound_workflow_id" \in DOMAIN d
                           THEN d.bound_workflow_id ELSE None,
     binding_locked_at |-> IF "binding_locked_at" \in DOMAIN d
                              /\ d.binding_locked_at # None
                           THEN Some(fromisoformat(d.binding_locked_at[1]))
                           ELSE None,
     last_activity |-> fromisoformat(d.last_activity)]

\* _persist_binding that dumps straight into the binding's file
persist_binding_in_place(files, b, io) ==
    LET doc == BindingDocument(b)
        path == get_binding_path(b.conversation_id)
    IN  CASE io \in {"ok", "replace_fails", "crash_written"} -> Put(files, path, doc)
          [] io = "create_fails" -> files
          [] io \in {"dump_fails", "crash_partial"} -> Put(files, path, Partial)
          [] io = "crash_created" -> Put(files, path, Empty)

\* _persist_binding: the files after the call.  The document is dumped into
\* a NamedTemporaryFile(delete=False, suffix='.tmp') which os.replace moves
\* onto the binding's path; an exception is logged and nothing is cleaned up.
persist_binding(files, b, io) ==
    LET doc == BindingDocument(b)
        tmp == new_temp_path(files)
    IN  CASE io = "ok" -> Put(files, get_binding_path(b.conversation_id), doc)
          [] io = "create_fails" -> files
          [] io \in {"dump_fails", "crash_partial"} -> Put(files, tmp, Partial)
          [] io = "crash_created" -> Put(files, tmp, Empty)
          [] io \in {"replace_fails", "crash_written"} -> Put(files, tmp, doc)

\* the documents _load_bindings can build a ChatBinding from
loadable_binding(d) ==
    {"conversation_id", "session_id", "created_at", "last_activity"} \subseteq DOMAIN d

\* _load_bindings that gives up at the first file it cannot load
load_bindings_all_or_nothing(files) ==
    LET docs == {files[p] : p \in {q \in DOMAIN files : is_json_name(q)}}
    IN  IF \E d \in docs : ~loadable_binding(d) THEN EmptyDict
        ELSE [c \in {d.conversation_id : d \in docs} |->
                BindingFromDocument(CHOOSE d \in docs : d.conversation_id = c)]

\* _load_bindings: one ChatBinding per *.json file that loads, keyed by the
\* document's conversation_id; a file that raises is logged and skipped
load_bindings(files) ==
    LET docs == {d \in {files[p] : p \in {q \in DOMAIN files : is_json_name(q)}} :
                    loadable_binding(d)}
    IN  [c \in {d.conversation_id : d \in docs} |->
            BindingFromDocument(CHOOSE d \in docs : d.conversation_id = c)]

-----------------------------------------------------------------------------
(* chat_binding_manager.py: read-only operations *)

get_binding(conversation_id) ==
    IF conversation_id \in DOMAIN bindings THEN Some(bindings[conversation_id]) ELSE None

is_bound(conversation_id) ==
    IF conversation_id \in DOMAIN bindings
    THEN ChatBinding_is_bound(bindings[conversation_id])
    ELSE FALSE

get_bound_workflow(conversation_id) ==
    IF conversation_id \in DOMAIN bindings
    THEN bindings[conversation_id].bound_workflow_id
    ELSE None

\* list(d.values()): the values of the dict, one per key
RECURSIVE dict_values(_)
dict_values(d) ==
    IF DOMAIN d = {} THEN <<>>
    ELSE LET k == CHOOSE x \in DOMAIN d : TRUE
         IN  <<d[k]>> \o dict_values(Remove(d, k))

has_session(b, session_id) == b.session_id = session_id

\* get_session_bindings that does not look at the session
get_session_bindings_of_any_session(session_id) == dict_values(bindings)

get_session_bindings(session_id) ==
    LET values == dict_values(bindings)
        keep == {i \in DOMAIN values : has_session(values[i], session_id)}
        RECURSIVE filtered(_)
        filtered(i) ==
            IF i > Len(values) THEN <<>>
            ELSE (IF i \in keep THEN <<values[i]>> ELSE <<>>) \o filtered(i + 1)
    IN  filtered(1)

-----------------------------------------------------------------------------
(* chat_binding_manager.py: operations that change state *)

\* the history variables after an operation that leaves `bs` in memory
Observe(seen, bs) ==
    [c \in (DOMAIN seen) \cup {x \in DOMAIN bs : ChatBinding_is_bound(bs[x])} |->
        IF c \in DOMAIN seen THEN seen[c] ELSE bs[c].bound_workflow_id[1]]

\* the key of a binding in the history variables
BKey(conversation_id) == <<"bindings", conversation_id>>

\* the history of completed writes after a write of obj under key with outcome io
note_write(key, obj, io) == IF io = "ok" THEN Put(written, key, obj) ELSE written

\* the damaged files after a write under key with outcome io
note_repair(key, io) == IF io = "ok" THEN corrupted \ {key} ELSE corrupted

\* whether the file of the binding is not what the manager holds in memory
disk_behind(files, bs, conversation_id) ==
    \/ conversation_id \notin DOMAIN load_bindings(files)
    \/ load_bindings(files)[conversation_id] # bs[conversation_id]

\* create_binding that builds a new binding even when one exists
create_binding_overwrite(conversation_id, session_id, io) ==
    /\ LET binding == NewChatBinding(conversation_id, session_id, now)
       IN  /\ bindings' = Put(bindings, conversation_id, binding)
           /\ bfiles' = persist_binding(bfiles, binding, io)
           /\ written' = note_write(BKey(conversation_id), binding, io)
           /\ corrupted' = note_repair(BKey(conversation_id), io)
           /\ last' = [op |-> "create_binding", conv |-> conversation_id,
                       session |-> session_id,
                       existed |-> conversation_id \in DOMAIN bindings,
                       pre |-> get_binding(conversation_id),
                       raised |-> "none", ret |-> binding, io |-> io]
    /\ seenBound' = Observe(seenBound, bindings')
    /\ keptBound' = Observe(keptBound, bindings')
    /\ UNCHANGED <<memVars, telVars, request, wfcVars, sessVars, store, now, convVars>>

create_binding_step(conversation_id, session_id, io) ==
    /\ IF conversation_id \in DOMAIN bindings
       THEN /\ UNCHANGED <<bindings, bfiles, written, corrupted>>
            /\ last' = [op |-> "create_binding", conv |-> conversation_id,
                        session |-> session_id, existed |-> TRUE,
                        pre |-> Some(bindings[conversation_id]),
                        raised |-> "none",
                        ret |-> bindings[conversation_id], io |-> "none"]
       ELSE LET binding == NewChatBinding(conversation_id, session_id, now)
            IN  /\ bindings' = Put(bindings, conversation_id, binding)
                /\ bfiles' = persist_binding(bfiles, binding, io)
                /\ written' = note_write(BKey(conversation_id), binding, io)
                /\ corrupted' = note_repair(BKey(conversation_id), io)
                /\ last' = [op |-> "create_binding", conv |-> conversation_id,
                            session |-> session_id, existed |-> FALSE,
                            pre |-> None, raised |-> "none", ret |-> binding,
                            io |-> io]
    /\ seenBound' = Observe(seenBound, bindings')
    /\ keptBound' = Observe(keptBound, bindings')
    /\ UNCHANGED <<memVars, telVars, wfcVars, sessVars, store, now, convVars>>

create_binding(conversation_id, session_id, io) ==
    /\ create_binding_step(conversation_id, session_id, io)
    /\ UNCHANGED request

\* bind_workflow that creates the binding it does not find
bind_workflow_upsert(conversation_id, workflow_id, io) ==
    /\ LET found == IF conversation_id \in DOMAIN bindings
                    THEN bindings[conversation_id]
                    ELSE NewChatBinding(conversation_id, <<>>, now)
           r == ChatBinding_bind(found, workflow_id, now)
           wrote == IF r.raised = "none" THEN io ELSE "none"
       IN  /\ bindings' = Put(bindings, conversation_id, r.binding)
           /\ bfiles' = IF r.raised = "none"
                        THEN persist_binding(bfiles, r.binding, io)
                        ELSE bfiles
           /\ written' = note_write(BKey(conversation_id), r.binding, wrote)
           /\ corrupted' = note_repair(BKey(conversation_id), wrote)
           /\ last' = [op |-> "bind_workflow", conv |-> conversation_id,
                       workflow |-> workflow_id, pre |-> get_binding(conversation_id),
                       raised |-> r.raised,
                       err_conversation |-> r.err_conversation,
                       err_workflow |-> r.err_workflow, io |-> wrote,
                       behind |-> FALSE]
    /\ seenBound' = Observe(seenBound, bindings')
    /\ keptBound' = Observe(keptBound, bindings')
    /\ UNCHANGED <<memVars, telVars, wfcVars, sessVars, store, now, convVars>>

bind_workflow_step(conversation_id, workflow_id, io) ==
    /\ IF conversation_id \notin DOMAIN bindings
       THEN /\ UNCHANGED <<bindings, bfiles, written, corrupted>>
            /\ last' = [op |-> "bind_workflow", conv |-> conversation_id,
                        workflow |-> workflow_id, pre |-> None,
                        raised |-> "KeyError",
                        err_conversation |-> Some(conversation_id),
                        err_workflow |-> None, io |-> "none", behind |-> FALSE]
       ELSE LET r == ChatBinding_bind(bindings[conversation_id], workflow_id, now)
                wrote == IF r.raised = "none" THEN io ELSE "none"
            IN  /\ bindings' = [bindings EXCEPT ![conversation_id] = r.binding]
                /\ bfiles' = IF r.raised = "none"
                             THEN persist_binding(bfiles, r.binding, io)
                             ELSE bfiles
                /\ written' = note_write(BKey(conversation_id), r.binding, wrote)
                /\ corrupted' = note_repair(BKey(conversation_id), wrote)
                /\ last' = [op |-> "bind_workflow", conv |-> conversation_id,
                            workflow |-> workflow_id,
                            pre |-> Some(bindings[conversation_id]),
                            raised |-> r.raised,
                            err_conversation |-> r.err_conversation,
                            err_workflow |-> r.err_workflow, io |-> wrote,
                            behind |-> disk_behind(bfiles, bindings, conversation_id)]
    /\ seenBound' = Observe(seenBound, bindings')
    /\ keptBound' = Observe(keptBound, bindings')
    /\ UNCHANGED <<memVars, telVars, wfcVars, sessVars, store, now, convVars>>

bind_workflow(conversation_id, workflow_id, io) ==
    /\ bind_workflow_step(conversation_id, workflow_id, io)
    /\ UNCHANGED request

update_activity_step(conversation_id, io) ==
    /\ IF conversation_id \notin DOMAIN bindings
       THEN /\ UNCHANGED <<bindings, bfiles, written, corrupted>>
            /\ last' = [op |-> "update_activity", conv |-> conversation_id,
                        ret |-> FALSE, io |-> "none", behind |-> FALSE]
       ELSE LET binding == ChatBinding_update_activity(bindings[conversation_id], now)
            IN  /\ bindings' = [bindings EXCEPT ![conversation_id] = binding]
                /\ bfiles' = persist_binding(bfiles, binding, io)
                /\ written' = note_write(BKey(conversation_id), binding, io)
                /\ corrupted' = note_repair(BKey(conversation_id), io)
                /\ last' = [op |-> "update_activity", conv |-> conversation_id,
                            ret |-> TRUE, io |-> io,
                            behind |-> disk_behind(bfiles, bindings, conversation_id)]
    /\ seenBound' = Observe(seenBound, bindings')
    /\ keptBound' = Observe(keptBound, bindings')
    /\ UNCHANGED <<memVars, telVars, wfcVars, sessVars, store, now, convVars>>

update_activity(conversation_id, io) ==
    /\ update_activity_step(conversation_id, io)
    /\ UNCHANGED request

\* delete_binding that unlinks the file of an id it does not hold
delete_binding_unlinks_unknown(conversation_id, ok) ==
    /\ bindings' = Remove(bindings, conversation_id)
    /\ bfiles' = IF ok THEN Remove(bfiles, get_binding_path(conversation_id))
                 ELSE bfiles
    /\ written' = IF ok THEN Remove(written, BKey(conversation_id)) ELSE written
    /\ corrupted' = IF ok THEN corrupted \ {BKey(conversation_id)} ELSE corrupted
    /\ last' = [op |-> "delete_binding", conv |-> conversation_id,
                existed |-> conversation_id \in DOMAIN bindings,
                ret |-> conversation_id \in DOMAIN bindings]
    /\ seenBound' = Observe(seenBound, bindings')
    /\ keptBound' = Observe(Remove(keptBound, conversation_id), bindings')
    /\ UNCHANGED <<memVars, telVars, request, wfcVars, sessVars, store, now, convVars>>

\* ok: whether unlink succeeds
delete_binding(conversation_id, ok) ==
    /\ IF conversation_id \notin DOMAIN bindings
       THEN /\ UNCHANGED <<bindings, bfiles, written, corrupted>>
            /\ last' = [op |-> "delete_binding", conv |-> conversation_id,
                        existed |-> FALSE, ret |-> FALSE]
       ELSE /\ bindings' = Remove(bindings, conversation_id)
            /\ bfiles' = IF ok THEN Remove(bfiles, get_binding_path(conversation_id))
                         ELSE bfiles
            /\ written' = IF ok THEN Remove(written, BKey(conversation_id))
                          ELSE written
            /\ corrupted' = IF ok THEN corrupted \ {BKey(conversation_id)}
                            ELSE corrupted
            /\ last' = [op |-> "delete_binding", conv |-> conversation_id,
                        existed |-> TRUE,
                        ret |-> ok \/ get_binding_path(conversation_id)
                                        \notin DOMAIN bfiles]
    /\ seenBound' = Observe(seenBound, bindings')
    /\ keptBound' = Observe(Remove(keptBound, conversation_id), bindings')
    /\ UNCHANGED <<memVars, telVars, request, wfcVars, sessVars, store, now, convVars>>

\* a new process: ChatBindingManager.__init__ reloads the bindings from disk
RestartBindings ==
    /\ bindings' = load_bindings(bfiles)
    /\ seenBound' = Observe(EmptyDict, bindings')
    /\ keptBound' = Observe(EmptyDict, bindings')
    /\ last' = [op |-> "restart"]
    /\ UNCHANGED <<memVars, auxVars, now, bfiles, convVars>>

\* the bindings an operation of the manager could be persisting now:
\* create_binding of an absent id, bind_workflow of an unbound one,
\* update_activity of a present one
bindings_to_persist(conversation_ids, session_ids, workflow_ids) ==
    {NewChatBinding(c, s, now) : c \in conversation_ids \ DOMAIN bindings,
                                 s \in session_ids}
    \cup {ChatBinding_bind(bindings[c], w, now).binding :
            c \in {x \in DOMAIN bindings : ~ChatBinding_is_bound(bindings[x])},
            w \in workflow_ids}
    \cup {ChatBinding_update_activity(bindings[c], now) : c \in DOMAIN bindings}

\* the process dies inside _persist_binding(b) at the point given, and a new
\* process constructs its ChatBindingManager over the same directory
crash_in_persist_binding(b, point) ==
    /\ Cardinality(temp_files(bfiles)) < MaxTempFiles
    /\ bfiles' = persist_binding(bfiles, b, point)
    /\ bindings' = load_bindings(bfiles')
    /\ seenBound' = Observe(EmptyDict, bindings')
    /\ keptBound' = Observe(EmptyDict, bindings')
    /\ last' = [op |-> "crash", store |-> "bindings", key |-> b.conversation_id,
                point |-> point, writing |-> b]
    /\ UNCHANGED <<memVars, auxVars, now, convVars>>

\* the ways a persisted document is damaged
Damages == {"unparseable", "lacks_field"}

\* the file of a binding is damaged behind the manager's back
corrupt_binding_file(conversation_id, damage) ==
    LET path == get_binding_path(conversation_id)
    IN  /\ path \in DOMAIN bfiles
        /\ BKey(conversation_id) \notin corrupted
        /\ bfiles' = [bfiles EXCEPT ![path] =
                        IF damage = "unparseable" THEN Partial
                        ELSE without(bfiles[path], "session_id")]
        /\ corrupted' = corrupted \cup {BKey(conversation_id)}
        /\ last' = [op |-> "corrupt", store |-> "bindings",
                    key |-> conversation_id]
        /\ UNCHANGED <<memVars, telVars, request, wfcVars, sessVars, written, store, now, convVars,
                       bindings, seenBound, keptBound>>

\* time passes
Tick ==
    /\ now < MaxTime
    /\ now' = now + 1
    /\ UNCHANGED <<bindingVars, convVars, memVars, auxVars, last>>

-----------------------------------------------------------------------------
(* session_manager.py *)

UserIdentifiers == {"anonymous", "alice"}

\* Session(session_id, created_at=now, last_activity=now, user_identifier, metadata={})
NewSession(session_id, user_identifier, t) ==
    [session_id |-> session_id,
     created_at |-> t,
     last_activity |-> t,
     user_identifier |-> user_identifier,
     metadata |-> EmptyDict]

\* Session.update_activity that restarts the session
Session_update_activity_anew(session, t) ==
    [session EXCEPT !.last_activity = t, !.created_at = t]

\* Session.update_activity
Session_update_activity(session, t) == [session EXCEPT !.last_activity = t]

get_session_path(session_id) == safe_id(session_id) \o <<".json">>

\* the dict _persist_session writes with json.dump
SessionDocument(session) ==
    [session_id |-> session.session_id,
     created_at |-> isoformat(session.created_at),
     last_activity |-> isoformat(session.last_activity),
     user_identifier |-> session.user_identifier,
     metadata |-> session.metadata]

\* the Session _load_sessions builds from a document
SessionFromDocument(d) ==
    [session_id |-> d.session_id,
     created_at |-> fromisoformat(d.created_at),
     last_activity |-> fromisoformat(d.last_activity),
     user_identifier |-> d.user_identifier,
     metadata |-> IF "metadata" \in DOMAIN d THEN d.metadata ELSE EmptyDict]

\* _persist_session: the files after the call; the same atomic write as
\* _persist_binding, and no cleanup either
persist_session(files, session, io) ==
    LET doc == SessionDocument(session)
        tmp == new_temp_path(files)
    IN  CASE io = "ok" -> Put(files, get_session_path(session.session_id), doc)
          [] io = "create_fails" -> files
          [] io \in {"dump_fails", "crash_partial"} -> Put(files, tmp, Partial)
          [] io = "crash_created" -> Put(files, tmp, Empty)
          [] io \in {"replace_fails", "crash_written"} -> Put(files, tmp, doc)

\* the documents _load_sessions can build a Session from
loadable_session(d) ==
    {"session_id", "created_at", "last_activity", "user_identifier"} \subseteq DOMAIN d

\* _load_sessions: one Session per *.json file that loads, keyed by the
\* document's session_id; a file that raises is logged and skipped
load_sessions(files) ==
    LET docs == {d \in {files[p] : p \in {q \in DOMAIN files : is_json_name(q)}} :
                    loadable_session(d)}
    IN  [id \in {d.session_id : d \in docs} |->
            SessionFromDocument(CHOOSE d \in docs : d.session_id = id)]

get_session(session_id) ==
    IF session_id \in DOMAIN sessions THEN Some(sessions[session_id]) ELSE None

\* the key of a session in the history variables
SKey(session_id) == <<"sessions", session_id>>

\* session_id: the value of f"sess_{uuid.uuid4().hex[:16]}", one never drawn before
create_session(session_id, user_identifier, io) ==
    LET session == NewSession(session_id, user_identifier, now)
    IN  /\ session_id \notin DOMAIN issued
        /\ sessions' = Put(sessions, session_id, session)
        /\ sfiles' = persist_session(sfiles, session, io)
        /\ issued' = Put(issued, session_id,
                         [session |-> session, returned |-> TRUE, deleted |-> FALSE])
        /\ written' = note_write(SKey(session_id), session, io)
        /\ corrupted' = note_repair(SKey(session_id), io)
        /\ last' = [op |-> "create_session", session |-> session_id,
                    ret |-> session, io |-> io]
        /\ UNCHANGED <<memVars, telVars, request, wfcVars, store, now, bindingVars, convVars>>

\* SessionManager.update_activity
SessionManager_update_activity(session_id, io) ==
    /\ IF session_id \notin DOMAIN sessions
       THEN /\ UNCHANGED <<sessions, sfiles, written, corrupted>>
            /\ last' = [op |-> "session_update_activity", session |-> session_id,
                        ret |-> FALSE, io |-> "none", behind |-> FALSE]
       ELSE LET session == Session_update_activity(sessions[session_id], now)
            IN  /\ sessions' = [sessions EXCEPT ![session_id] = session]
                /\ sfiles' = persist_session(sfiles, session, io)
                /\ written' = note_write(SKey(session_id), session, io)
                /\ corrupted' = note_repair(SKey(session_id), io)
                /\ last' = [op |-> "session_update_activity",
                            session |-> session_id, ret |-> TRUE, io |-> io,
                            behind |-> \/ session_id \notin DOMAIN load_sessions(sfiles)
                                       \/ load_sessions(sfiles)[session_id]
                                            # sessions[session_id]]
    /\ UNCHANGED <<memVars, telVars, request, wfcVars, store, issued, now, bindingVars, convVars>>

\* ok: whether unlink succeeds
delete_session(session_id, ok) ==
    /\ IF session_id \notin DOMAIN sessions
       THEN /\ UNCHANGED <<sessions, sfiles, issued, written, corrupted>>
            /\ last' = [op |-> "delete_session", session |-> session_id,
                        existed |-> FALSE, ret |-> FALSE]
       ELSE /\ sessions' = Remove(sessions, session_id)
            /\ sfiles' = IF ok THEN Remove(sfiles, get_session_path(session_id))
                         ELSE sfiles
            /\ issued' = IF session_id \in DOMAIN issued
                         THEN [issued EXCEPT ![session_id].deleted = TRUE]
                         ELSE issued
            /\ written' = IF ok THEN Remove(written, SKey(session_id)) ELSE written
            /\ corrupted' = IF ok THEN corrupted \ {SKey(session_id)} ELSE corrupted
            /\ last' = [op |-> "delete_session", session |-> session_id,
                        existed |-> TRUE,
                        ret |-> ok \/ get_session_path(session_id)
                                        \notin DOMAIN sfiles]
    /\ UNCHANGED <<memVars, telVars, request, wfcVars, store, now, bindingVars, convVars>>

\* a new process: SessionManager.__init__ reloads the sessions from disk
RestartSessions ==
    /\ sessions' = load_sessions(sfiles)
    /\ last' = [op |-> "restart"]
    /\ UNCHANGED <<memVars, telVars, request, wfcVars, ioVars, sfiles, issued, now, bindingVars,
                   convVars>>

\* the process dies inside the _persist_session of update_activity(session_id)
\* at the point given, and a new process constructs its SessionManager over
\* the same directory
crash_in_persist_session(session_id, point) ==
    /\ session_id \in DOMAIN sessions
    /\ Cardinality(temp_files(sfiles)) < MaxTempFiles
    /\ sfiles' = persist_session(
                    sfiles, Session_update_activity(sessions[session_id], now), point)
    /\ sessions' = load_sessions(sfiles')
    /\ last' = [op |-> "crash", store |-> "sessions", key |-> session_id,
                point |-> point,
                writing |-> Session_update_activity(sessions[session_id], now)]
    /\ UNCHANGED <<memVars, telVars, request, wfcVars, ioVars, issued, now, bindingVars, convVars>>

\* the process dies inside the _persist_session of create_session
crash_in_create_session(session_id, user_identifier, point) ==
    /\ session_id \notin DOMAIN issued
    /\ Cardinality(temp_files(sfiles)) < MaxTempFiles
    /\ sfiles' = persist_session(
                    sfiles, NewSession(session_id, user_identifier, now), point)
    /\ sessions' = load_sessions(sfiles')
    /\ issued' = Put(issued, session_id,
                     [session |-> NewSession(session_id, user_identifier, now),
                      returned |-> FALSE, deleted |-> FALSE])
    /\ last' = [op |-> "crash", store |-> "sessions", key |-> session_id,
                point |-> point,
                writing |-> NewSession(session_id, user_identifier, now)]
    /\ UNCHANGED <<memVars, telVars, request, wfcVars, ioVars, now, bindingVars, convVars>>

\* the file of a session is damaged behind the manager's back
corrupt_session_file(session_id, damage) ==
    LET path == get_session_path(session_id)
    IN  /\ path \in DOMAIN sfiles
        /\ SKey(session_id) \notin corrupted
        /\ sfiles' = [sfiles EXCEPT ![path] =
                        IF damage = "unparseable" THEN Partial
                        ELSE without(sfiles[path], "user_identifier")]
        /\ corrupted' = corrupted \cup {SKey(session_id)}
        /\ last' = [op |-> "corrupt", store |-> "sessions", key |-> session_id]
        /\ UNCHANGED <<memVars, telVars, request, wfcVars, written, store, now, bindingVars,
                       convVars, sessions, issued>>

-----------------------------------------------------------------------------
(* Text *)

UpperCase == <<"A", "B", "C", "D", "E", "F", "G", "H", "I", "J", "K", "L", "M",
               "N", "O", "P", "Q", "R", "S", "T", "U", "V", "W", "X", "Y", "Z">>
LowerCase == <<"a", "b", "c", "d", "e", "f", "g", "h", "i", "j", "k", "l", "m",
               "n", "o", "p", "q", "r", "s", "t", "u", "v", "w", "x", "y", "z">>

\* str.lower()
Lower(str) ==
    [i \in DOMAIN str |->
        IF \E k \in DOMAIN UpperCase : UpperCase[k] = str[i]
        THEN LowerCase[CHOOSE k \in DOMAIN UpperCase : UpperCase[k] = str[i]]
        ELSE str[i]]

\* sub in str
Contains(str, sub) ==
    \E i \in 0..(Len(str) - Len(sub)) : SubSeq(str, i + 1, i + Len(sub)) = sub

Min(a, b) == IF a <= b THEN a ELSE b
Max(a, b) == IF a >= b THEN a ELSE b

\* seq[a:b] for a, b >= 0
Slice(seq, a, b) ==
    LET lo == Min(a, Len(seq))
        hi == Min(b, Len(seq))
    IN  IF lo >= hi THEN <<>> ELSE SubSeq(seq, lo + 1, hi)

\* seq[a:] for a >= 0
SliceFrom(seq, a) == Slice(seq, a, Len(seq))

\* seq[-n:] for n >= 0 (seq[-0:] is the whole of seq)
NegSlice(seq, n) ==
    IF n = 0 THEN seq ELSE SubSeq(seq, Max(Len(seq) - n, 0) + 1, Len(seq))

\* sep.join(parts)
RECURSIVE Join(_, _)
Join(parts, sep) ==
    IF parts = <<>> THEN <<>>
    ELSE IF Len(parts) = 1 THEN parts[1]
    ELSE parts[1] \o sep \o Join(Tail(parts), sep)

\* the message texts and tool lists the requests of the model carry
UserText1 == <<"C", "r", "e", "a", "t", "e", " ", "a", " ", "f", "l", "o", "w">>
UserText2 == <<"h", "i">>
AgentText1 == <<"D", "o", "n", "e">>
AgentText2 == <<"o", "k">>

TurnInputs ==
    {[user_message |-> UserText1, agent_response |-> AgentText1,
      mcp_tools_used |-> <<"create_workflow">>],
     [user_message |-> UserText2, agent_response |-> AgentText2,
      mcp_tools_used |-> <<>>]}

\* ConversationTurn(user_message, agent_response, timestamp=datetime.now(), mcp_tools_used)
ConversationTurn(in, t) ==
    [user_message |-> in.user_message,
     agent_response |-> in.agent_response,
     timestamp |-> t,
     mcp_tools_used |-> in.mcp_tools_used]

-----------------------------------------------------------------------------
(* conversation_summarizer.py *)

\* ConversationManager's configuration, scaled down: max_length,
\* preserve_recent, preserve_early; summary_threshold is 0.70 as in the code
max_length == 3
preserve_recent == 1
preserve_early == 1
SummaryThresholdPct == 70

\* int(max_length * summary_threshold), the threshold given in percent.  In
\* IEEE doubles int(m * 0.70) is floor(70 * m / 100) for every m below 90.
threshold_turns(ml, pct) == (ml * pct) \div 100

\* should_summarize that triggers only above the threshold
should_summarize_strict(ml, pct, conversation_length) ==
    conversation_length > threshold_turns(ml, pct)

should_summarize(ml, pct, conversation_length) ==
    conversation_length >= threshold_turns(ml, pct)

KwCreate == <<"c", "r", "e", "a", "t", "e">>
KwNew == <<"n", "e", "w">>
KwModify == <<"m", "o", "d", "i", "f", "y">>
KwChange == <<"c", "h", "a", "n", "g", "e">>
KwExplain == <<"e", "x", "p", "l", "a", "i", "n">>
KwWhatIs == <<"w", "h", "a", "t", " ", "i", "s">>
KwWorkflow == <<"w", "o", "r", "k", "f", "l", "o", "w">>

\* the topic _extract_topics derives from one turn: <<>> or <<topic>>
TopicOf(turn) ==
    LET message_lower == Lower(turn.user_message)
    IN  IF Contains(message_lower, KwCreate) \/ Contains(message_lower, KwNew)
        THEN <<<<"Workflow creation discussion">>>>
        ELSE IF Contains(message_lower, KwModify) \/ Contains(message_lower, KwChange)
        THEN <<<<"Workflow modification">>>>
        ELSE IF Contains(message_lower, KwExplain) \/ Contains(message_lower, KwWhatIs)
        THEN <<<<"Workflow explanation">>>>
        ELSE IF Contains(message_lower, KwWorkflow)
        THEN <<<<"Workflow-related question">>>>
        ELSE IF Len(turn.user_message) > 10
        THEN <<Slice(turn.user_message, 0, 50) \o <<"...">>>>
        ELSE <<>>

\* topics in turn order
RECURSIVE Topics(_)
Topics(turns) ==
    IF turns = <<>> THEN <<>> ELSE TopicOf(turns[1]) \o Topics(Tail(turns))

\* deduplicate while preserving order
RECURSIVE Unique(_)
Unique(seq) ==
    IF seq = <<>> THEN <<>>
    ELSE LET init == Unique(SubSeq(seq, 1, Len(seq) - 1))
             x == seq[Len(seq)]
         IN  IF \E i \in DOMAIN init : init[i] = x THEN init ELSE Append(init, x)

extract_topics(turns) == Unique(Topics(turns))

simple_summarize(turns) ==
    IF turns = <<>> THEN <<"No conversation history">>
    ELSE LET topics == extract_topics(turns)
             shown == Slice(topics, 0, 3)
             head == << <<"Discussed ", ToString(Len(turns)), " topics including:">> >>
             bullets == [i \in DOMAIN shown |-> <<"- ">> \o shown[i]]
             more == IF Len(topics) > 3
                     THEN << <<"- And ", ToString(Len(topics) - 3), " more topics...">> >>
                     ELSE <<>>
         IN  Join(head \o bullets \o more, <<"\n">>)

\* _format_turns
format_turns(turns) ==
    Join([i \in 1..(2 * Len(turns)) |->
            IF i % 2 = 1 THEN <<"User: ">> \o turns[(i + 1) \div 2].user_message
            ELSE <<"Agent: ">> \o turns[i \div 2].agent_response],
         <<"\n\n">>)

\* the function create_llm_summarizer returns
llm_summarize_turns(turns) ==
    <<"Discussed workflow topics and performed operations (turns 1-",
      ToString(Len(turns)), ")">>

\* the summary of the middle segment with the exception of the injected
\* function left to propagate
summarize_middle_unguarded(llm, middle_turns) ==
    [raised |-> IF llm = "raises" /\ middle_turns # <<>> THEN "Exception" ELSE "none",
     summary |-> IF llm = "ok" /\ middle_turns # <<>>
                 THEN llm_summarize_turns(middle_turns)
                 ELSE simple_summarize(middle_turns)]

\* summarize_conversation, lines 93-101: the exception that leaves the block,
\* if any, and the summary of the middle segment, which is the one of the
\* injected function when it is given, the segment is not empty and the
\* function returns, and the local one otherwise
summarize_middle(llm, middle_turns) ==
    [raised |-> "none",
     summary |-> IF llm = "ok" /\ middle_turns # <<>>
                 THEN llm_summarize_turns(middle_turns)
                 ELSE simple_summarize(middle_turns)]

\* the start of the recent turns taken from the end without regard to the
\* early ones
recent_start_from_end(length, pr, early_cutoff) == Max(length - pr, 0)

\* recent_start = max(len(turns) - self.preserve_recent, early_cutoff)
recent_start(length, pr, early_cutoff) == Max(length - pr, early_cutoff)

\* summarize_conversation, lines 103-117: the result, given the outcome m of
\* summarizing the middle segment
summarized(m, early_turns, middle_turns, recent_turns) ==
    IF m.raised # "none"
    THEN [raised |-> m.raised, summary |-> <<>>, turns |-> <<>>, cached |-> None,
          early |-> early_turns, middle |-> middle_turns]
    ELSE [raised |-> "none",
          early |-> early_turns, middle |-> middle_turns,
          summary |-> <<"[Early conversation context:]\n">>
                      \o format_turns(early_turns)
                      \o <<"\n\n[Summary of ", ToString(Len(middle_turns)),
                           " middle turns:]\n">>
                      \o m.summary
                      \o <<"\n\n[Recent conversation:]">>,
          turns |-> recent_turns,
          cached |-> IF middle_turns # <<>> THEN Some(m.summary) ELSE None]

\* summarize_conversation for a summarizer configured with max_length ml,
\* summary_threshold pct, preserve_recent pr and preserve_early pe; llm says
\* whether a summarization function is passed ("none"), and whether it
\* returns ("ok") or raises ("raises").  The result: the summary string, the
\* turns left to format, the summary stored in _summaries (if any), and the
\* early and middle segments the call worked with.
summarize_conversation(ml, pct, pr, pe, turns, llm) ==
    IF ~should_summarize(ml, pct, Len(turns))
    THEN [raised |-> "none", summary |-> <<>>, turns |-> turns, cached |-> None,
          early |-> <<>>, middle |-> <<>>]
    ELSE LET early_cutoff == pe
             start == recent_start(Len(turns), pr, early_cutoff)
             middle_turns == Slice(turns, early_cutoff, start)
         IN  summarized(summarize_middle(llm, middle_turns),
                        Slice(turns, 0, early_cutoff), middle_turns,
                        SliceFrom(turns, start))

-----------------------------------------------------------------------------
(* conversation_persistence.py *)

get_conversation_path(conversation_id) == safe_id(conversation_id) \o <<".json">>

\* the dict save_conversation writes with json.dump
ConversationDocument(conversation_id, turns, created_at, t) ==
    [conversation_id |-> conversation_id,
     turns |-> [i \in DOMAIN turns |->
                    [user_message |-> turns[i].user_message,
                     agent_response |-> turns[i].agent_response,
                     timestamp |-> isoformat(turns[i].timestamp),
                     mcp_tools_used |-> turns[i].mcp_tools_used]],
     created_at |-> IF created_at # None THEN isoformat(created_at[1]) ELSE isoformat(t),
     updated_at |-> isoformat(t),
     turn_count |-> Len(turns)]

\* the name mkstemp(dir, prefix=".tmp_<safe_id>_", suffix=".json") picks
new_conversation_temp_path(files, conversation_id) ==
    <<".tmp_">> \o safe_id(conversation_id)
        \o <<"_", ToString(Cardinality(temp_files(files))), ".json">>

\* save_conversation that writes a document only when there is none yet
save_conversation_once(files, conversation_id, turns, created_at, t, io) ==
    IF io = "ok" /\ get_conversation_path(conversation_id) \notin DOMAIN files
    THEN Put(files, get_conversation_path(conversation_id),
             ConversationDocument(conversation_id, turns, created_at, t))
    ELSE files

\* save_conversation that adds the newest turn to the turns of the document
\* it finds
save_conversation_newest_turn(files, conversation_id, turns, created_at, t, io) ==
    LET path == get_conversation_path(conversation_id)
        doc == ConversationDocument(conversation_id, turns, created_at, t)
        old == IF path \in DOMAIN files /\ "turns" \in DOMAIN files[path]
               THEN files[path].turns ELSE <<>>
    IN  IF io = "ok"
        THEN Put(files, path,
                 [doc EXCEPT !.turns = Append(old, doc.turns[Len(doc.turns)])])
        ELSE files

\* save_conversation: the files after the call.  The document is dumped into
\* a temp file which os.replace moves onto the conversation's path; when
\* json.dump or os.replace raises the temp file is unlinked, so a failed
\* write leaves the files as they were.  A process that dies on the way
\* leaves its temp file.
save_conversation(files, conversation_id, turns, created_at, t, io) ==
    LET doc == ConversationDocument(conversation_id, turns, created_at, t)
        tmp == new_conversation_temp_path(files, conversation_id)
    IN  CASE io = "ok" -> Put(files, get_conversation_path(conversation_id), doc)
          [] io \in {"create_fails", "dump_fails", "replace_fails"} -> files
          [] io = "crash_created" -> Put(files, tmp, Empty)
          [] io = "crash_partial" -> Put(files, tmp, Partial)
          [] io = "crash_written" -> Put(files, tmp, doc)

\* the entries of "turns" load_conversation can build a ConversationTurn from
loadable_turn(turn_data) ==
    {"user_message", "agent_response", "timestamp"} \subseteq DOMAIN turn_data

\* load_conversation: None when there is no file or when reading it raises,
\* else the turns of the document
load_conversation(files, conversation_id) ==
    LET path == get_conversation_path(conversation_id)
    IN  IF path \notin DOMAIN files THEN None
        ELSE LET data == files[path]
                 turns_data == IF "turns" \in DOMAIN data THEN data.turns ELSE <<>>
             IN  IF "truncated" \in DOMAIN data THEN None
                 ELSE IF \E i \in DOMAIN turns_data : ~loadable_turn(turns_data[i])
                 THEN None
                 ELSE Some([i \in DOMAIN turns_data |->
                        [user_message |-> turns_data[i].user_message,
                         agent_response |-> turns_data[i].agent_response,
                         timestamp |-> fromisoformat(turns_data[i].timestamp),
                         mcp_tools_used |->
                            IF "mcp_tools_used" \in DOMAIN turns_data[i]
                            THEN turns_data[i].mcp_tools_used ELSE <<>>]])

\* delete_conversation that leaves the file in place
delete_conversation_noop(files, conversation_id, ok) == files

\* delete_conversation: the files after the call
delete_conversation(files, conversation_id, ok) ==
    IF ok THEN Remove(files, get_conversation_path(conversation_id)) ELSE files

-----------------------------------------------------------------------------
(* conversation_manager.py *)

\* cache_ttl, in clock ticks
cache_ttl == 1

\* CachedContext.is_valid
CachedContext_is_valid(cached, current_turn_count, ttl, t) ==
    /\ (t - cached.cached_at) < ttl
    /\ cached.turn_count = current_turn_count

\* get_conversation_count
get_conversation_count(convs, conversation_id) ==
    IF conversation_id \in DOMAIN convs THEN Len(convs[conversation_id]) ELSE 0

\* get_conversation_history on the state (convs, created, files): the list
\* returned and the in-memory maps after the call
\* get_conversation_history that reads the persisted document every time
conversation_history_from_disk(convs, created, files, conversation_id) ==
    LET loaded == load_conversation(files, conversation_id)
    IN  IF loaded # None /\ loaded[1] # <<>>
        THEN [ret |-> loaded[1],
              convs |-> Put(convs, conversation_id, loaded[1]),
              created |-> Put(created, conversation_id, loaded[1][1].timestamp)]
        ELSE [ret |-> <<>>, convs |-> convs, created |-> created]

conversation_history(convs, created, files, conversation_id) ==
    IF conversation_id \in DOMAIN convs
    THEN [ret |-> convs[conversation_id], convs |-> convs, created |-> created]
    ELSE LET loaded == load_conversation(files, conversation_id)
         IN  IF loaded # None /\ loaded[1] # <<>>
             THEN [ret |-> loaded[1],
                   convs |-> Put(convs, conversation_id, loaded[1]),
                   created |-> Put(created, conversation_id, loaded[1][1].timestamp)]
             ELSE [ret |-> <<>>, convs |-> convs, created |-> created]

\* the context string get_context_string builds from a non-empty history,
\* and the summary the summarizer caches while doing so
build_context(history) ==
    LET s == IF should_summarize(max_length, SummaryThresholdPct, Len(history))
             THEN summarize_conversation(max_length, SummaryThresholdPct,
                                         preserve_recent, preserve_early,
                                         history, "none")
             ELSE [summary |-> <<>>, turns |-> history, cached |-> None]
        turn_parts == [i \in 1..(2 * Len(s.turns)) |->
                        IF i % 2 = 1
                        THEN <<"User: ">> \o s.turns[(i + 1) \div 2].user_message
                        ELSE <<"Agent: ">> \o s.turns[i \div 2].agent_response]
        context_parts == (IF s.summary # <<>> THEN <<s.summary>> ELSE <<>>) \o turn_parts
    IN  [context_string |-> Join(context_parts, <<"\n\n">>), cached |-> s.cached]

\* get_context_string on the state given: the string returned, whether the
\* call was counted as a hit, and the maps after the call
context_string(convs, created, cache, sums, files, conversation_id, t) ==
    LET current_turn_count == get_conversation_count(convs, conversation_id)
    IN  IF /\ conversation_id \in DOMAIN cache
           /\ CachedContext_is_valid(cache[conversation_id], current_turn_count,
                                     cache_ttl, t)
        THEN [ret |-> cache[conversation_id].context_string, hit |-> TRUE,
              convs |-> convs, created |-> created, cache |-> cache, sums |-> sums]
        ELSE LET h == conversation_history(convs, created, files, conversation_id)
             IN  IF h.ret = <<>>
                 THEN [ret |-> <<>>, hit |-> FALSE,
                       convs |-> h.convs, created |-> h.created,
                       cache |-> cache, sums |-> sums]
                 ELSE LET b == build_context(h.ret)
                      IN  [ret |-> b.context_string, hit |-> FALSE,
                           convs |-> h.convs, created |-> h.created,
                           cache |-> Put(cache, conversation_id,
                                         [context_string |-> b.context_string,
                                          turn_count |-> current_turn_count,
                                          cached_at |-> t]),
                           sums |-> IF b.cached # None
                                    THEN Put(sums, conversation_id, b.cached[1])
                                    ELSE sums]

\* add_turn trimming from the wrong end: the oldest max_length turns kept
appended_log_keep_oldest(convs, conversation_id, turn) ==
    LET log == (IF conversation_id \in DOMAIN convs
                THEN convs[conversation_id] ELSE <<>>) \o <<turn>>
    IN  IF Len(log) > max_length THEN Slice(log, 0, max_length) ELSE log

\* the list add_turn leaves in memory: the turn appended, the log trimmed
appended_log(convs, conversation_id, turn) ==
    LET log == (IF conversation_id \in DOMAIN convs
                THEN convs[conversation_id] ELSE <<>>) \o <<turn>>
    IN  IF Len(log) > max_length THEN NegSlice(log, max_length) ELSE log

\* the cache after add_turn or clear_conversation invalidated an entry
\* left in place
invalidate_context_noop(cache, conversation_id) == cache

\* an invalidation that drops the entries of all conversations
invalidate_context_all(cache, conversation_id) == EmptyDict

\* the cache after add_turn or clear_conversation invalidated an entry
invalidate_context(cache, conversation_id) ==
    IF conversation_id \in DOMAIN cache THEN Remove(cache, conversation_id) ELSE cache

-----------------------------------------------------------------------------
(* conversation_manager.py: operations *)

\* bounds: turns added to one log, and context lookups, in one process
MaxAppends == 4
MaxLookups == 3

CKey(conversation_id) == <<"turns", conversation_id>>

\* what add_turn does to the manager and its files
add_turn_step(conversation_id, in, io) ==
    LET turn == ConversationTurn(in, now)
        log == appended_log(conversations, conversation_id, turn)
        fresh == conversation_id \notin DOMAIN conversations
        created == IF fresh THEN Put(conversation_created_at, conversation_id, now)
                   ELSE conversation_created_at
    IN  /\ conversation_id \in DOMAIN appended
              => Len(appended[conversation_id]) < MaxAppends
        /\ conversations' = Put(conversations, conversation_id, log)
        /\ conversation_created_at' = created
        /\ context_cache' = invalidate_context(context_cache, conversation_id)
        /\ cfiles' = save_conversation(
                        cfiles, conversation_id, log,
                        IF conversation_id \in DOMAIN created
                        THEN Some(created[conversation_id]) ELSE None,
                        now, io)
        /\ written' = note_write(CKey(conversation_id), log, io)
        /\ corrupted' = note_repair(CKey(conversation_id), io)
        /\ appended' = IF fresh THEN Put(appended, conversation_id, <<turn>>)
                       ELSE IF conversation_id \in DOMAIN appended
                       THEN Put(appended, conversation_id,
                                Append(appended[conversation_id], turn))
                       ELSE appended
        /\ pending' = Put(pending, conversation_id, turn)
        /\ prevCtx' = Remove(prevCtx, conversation_id)
        /\ last' = [op |-> "add_turn", conv |-> conversation_id, turn |-> turn,
                    ret |-> Len(log), saved |-> (io = "ok"),
                    behind |-> /\ ~fresh
                               /\ load_conversation(cfiles, conversation_id)
                                    # Some(conversations[conversation_id]),
                    pre_in_memory |-> ~fresh,
                    pre_disk |-> load_conversation(cfiles, conversation_id)]
        /\ UNCHANGED <<memVars, telVars, wfcVars, sessVars, store, now, bindingVars,
                       cache_hits, cache_misses, summaries>>

add_turn(conversation_id, in, io) ==
    add_turn_step(conversation_id, in, io) /\ UNCHANGED request

get_conversation_history(conversation_id) ==
    LET h == conversation_history(conversations, conversation_created_at, cfiles,
                                  conversation_id)
    IN  /\ conversations' = h.convs
        /\ conversation_created_at' = h.created
        /\ last' = [op |-> "get_conversation_history", conv |-> conversation_id,
                    ret |-> h.ret]
        /\ UNCHANGED <<memVars, auxVars, now, bindingVars, context_cache, cache_hits, cache_misses,
                       summaries, cfiles, appended, pending, prevCtx>>

\* what get_context_string does to the manager
\* (r is bound by \E so that the call is evaluated once)
\* get_context_string: what the call that returns r does to the manager
get_context_string_update(conversation_id, r) ==
    LET repeat == /\ conversation_id \in DOMAIN prevCtx
                  /\ now - prevCtx[conversation_id].at < cache_ttl
    IN  /\ cache_hits + cache_misses < MaxLookups
        /\ conversations' = r.convs
        /\ conversation_created_at' = r.created
        /\ context_cache' = r.cache
        /\ summaries' = r.sums
        /\ cache_hits' = IF r.hit THEN cache_hits + 1 ELSE cache_hits
        /\ cache_misses' = IF r.hit THEN cache_misses ELSE cache_misses + 1
        /\ prevCtx' = IF repeat THEN prevCtx
                      ELSE Put(prevCtx, conversation_id,
                               [context_string |-> r.ret, at |-> now])
        /\ pending' = Remove(pending, conversation_id)
        /\ UNCHANGED <<cfiles, appended>>

get_context_string_step(conversation_id) ==
    \E r \in {context_string(conversations, conversation_created_at, context_cache,
                            summaries, cfiles, conversation_id, now)} :
    LET repeat == /\ conversation_id \in DOMAIN prevCtx
                  /\ now - prevCtx[conversation_id].at < cache_ttl
    IN  /\ get_context_string_update(conversation_id, r)
        /\ last' = [op |-> "get_context_string", conv |-> conversation_id,
                    ret |-> r.ret, hit |-> r.hit,
                    hits_before |-> cache_hits, misses_before |-> cache_misses,
                    repeat |-> repeat,
                    prev |-> IF repeat
                             THEN Some(prevCtx[conversation_id].context_string)
                             ELSE None,
                    pending |-> IF conversation_id \in DOMAIN pending
                                THEN Some(pending[conversation_id]) ELSE None,
                    pre_in_memory |-> conversation_id \in DOMAIN conversations,
                    pre_disk |-> load_conversation(cfiles, conversation_id)]
        /\ UNCHANGED <<memVars, restVars, now, bindingVars>>

get_context_string(conversation_id) ==
    get_context_string_step(conversation_id) /\ UNCHANGED request

clear_conversation(conversation_id, ok) ==
    /\ conversations' = Remove(conversations, conversation_id)
    /\ conversation_created_at' = Remove(conversation_created_at, conversation_id)
    /\ context_cache' = invalidate_context(context_cache, conversation_id)
    /\ cfiles' = delete_conversation(cfiles, conversation_id, ok)
    /\ written' = IF ok THEN Remove(written, CKey(conversation_id)) ELSE written
    /\ corrupted' = IF ok THEN corrupted \ {CKey(conversation_id)} ELSE corrupted
    /\ appended' = Remove(appended, conversation_id)
    /\ pending' = Remove(pending, conversation_id)
    /\ prevCtx' = Remove(prevCtx, conversation_id)
    /\ last' = [op |-> "clear_conversation", conv |-> conversation_id,
                pre_in_memory |-> conversation_id \in DOMAIN conversations,
                pre_disk |-> load_conversation(cfiles, conversation_id)]
    /\ UNCHANGED <<memVars, telVars, request, wfcVars, sessVars, store, now, bindingVars,
                   cache_hits, cache_misses, summaries>>

\* the process dies inside the save_conversation of add_turn(conversation_id, in)
\* at the point given, and a new process constructs its ConversationManager
\* over the same directory
crash_in_add_turn(conversation_id, in, point) ==
    LET turn == ConversationTurn(in, now)
        log == appended_log(conversations, conversation_id, turn)
        created_at == IF conversation_id \in DOMAIN conversation_created_at
                      THEN Some(conversation_created_at[conversation_id])
                      ELSE Some(now)
    IN  /\ Cardinality(temp_files(cfiles)) < MaxTempFiles
        /\ cfiles' = save_conversation(cfiles, conversation_id, log, created_at,
                                       now, point)
        /\ conversations' = EmptyDict
        /\ conversation_created_at' = EmptyDict
        /\ context_cache' = EmptyDict
        /\ cache_hits' = 0
        /\ cache_misses' = 0
        /\ summaries' = EmptyDict
        /\ appended' = EmptyDict
        /\ pending' = EmptyDict
        /\ prevCtx' = EmptyDict
        /\ last' = [op |-> "crash", store |-> "turns", key |-> conversation_id,
                    point |-> point, writing |-> log]
        /\ workflow_cache' = EmptyDict
        /\ workflow_cache_hits' = 0
        /\ workflow_cache_misses' = 0
        /\ UNCHANGED <<memVars, telVars, request, sessVars, ioVars, now, bindingVars>>

\* the ways a conversation document is damaged: cut short, a turn without
\* its timestamp, no "turns" at all
ConversationDamages == Damages \cup {"lacks_turns"}

\* the file of a conversation is damaged behind the manager's back
corrupt_conversation_file(conversation_id, damage) ==
    LET path == get_conversation_path(conversation_id)
    IN  /\ path \in DOMAIN cfiles
        /\ CKey(conversation_id) \notin corrupted
        /\ cfiles' = [cfiles EXCEPT ![path] =
                        CASE damage = "unparseable" -> Partial
                          [] damage = "lacks_field" ->
                                [cfiles[path] EXCEPT !.turns[1] =
                                    without(cfiles[path].turns[1], "timestamp")]
                          [] damage = "lacks_turns" -> without(cfiles[path], "turns")]
        /\ corrupted' = corrupted \cup {CKey(conversation_id)}
        /\ last' = [op |-> "corrupt", store |-> "turns", key |-> conversation_id]
        /\ UNCHANGED <<memVars, telVars, request, wfcVars, sessVars, written, store, now, bindingVars,
                       conversations, conversation_created_at, context_cache,
                       cache_hits, cache_misses, summaries, appended, pending,
                       prevCtx>>

\* a new process: ConversationManager.__init__ over the same storage directory
RestartConversations ==
    /\ conversations' = EmptyDict
    /\ conversation_created_at' = EmptyDict
    /\ context_cache' = EmptyDict
    /\ cache_hits' = 0
    /\ cache_misses' = 0
    /\ summaries' = EmptyDict
    /\ appended' = EmptyDict
    /\ pending' = EmptyDict
    /\ prevCtx' = EmptyDict
    /\ workflow_cache' = EmptyDict
    /\ workflow_cache_hits' = 0
    /\ workflow_cache_misses' = 0
    /\ token_usage_history' = <<>>
    /\ tracked' = <<>>
    /\ workflow_memories' = EmptyDict
    /\ last' = [op |-> "restart"]
    /\ UNCHANGED <<memVars, telVars, request, sessVars, ioVars, now, bindingVars, cfiles>>

-----------------------------------------------------------------------------
(* conversation_summarizer.py: a summarizer with the default configuration *)

\* ConversationSummarizer.__init__ defaults
default_max_length == 15
default_preserve_recent == 5
default_preserve_early == 2

\* the longest turn list handed to the summarizer
MaxTurns == 16

LlmModes == {"none", "ok", "raises"}

\* turn lists of every length up to MaxTurns: all turns of the first kind,
\* all of the second kind, or the two kinds alternating
SampleTurns ==
    LET in1 == CHOOSE in \in TurnInputs : in.mcp_tools_used # <<>>
        in2 == CHOOSE in \in TurnInputs : in.mcp_tools_used = <<>>
    IN  {[i \in 1..n |-> ConversationTurn(in1, 0)] : n \in 0..MaxTurns}
        \cup {[i \in 1..n |-> ConversationTurn(in2, 0)] : n \in 0..MaxTurns}
        \cup {[i \in 1..n |-> ConversationTurn(IF i % 2 = 1 THEN in1 ELSE in2, 0)]
                : n \in 0..MaxTurns}

\* get_cached_summary
get_cached_summary(conversation_id) ==
    IF conversation_id \in DOMAIN summaries
    THEN Some(summaries[conversation_id]) ELSE None

\* _summaries that keeps the summary a conversation has
cache_summary_once(sums, conversation_id, cached) ==
    IF cached # None /\ conversation_id \notin DOMAIN sums
    THEN Put(sums, conversation_id, cached[1]) ELSE sums

\* summarize_conversation, lines 103-105: _summaries after a call that
\* produced the summary `cached` of a non-empty middle segment, or None
cache_summary(sums, conversation_id, cached) ==
    IF cached # None THEN Put(sums, conversation_id, cached[1]) ELSE sums

\* the configuration ConversationSummarizer() has
DefaultConfig ==
    [max_length |-> default_max_length,
     preserve_recent |-> default_preserve_recent,
     preserve_early |-> default_preserve_early]

\* summarize_conversation(conversation_id, turns, f) on a summarizer
\* constructed with config
summarize_conversation_step(conversation_id, config, turns, llm) ==
    \E r \in {summarize_conversation(config.max_length, SummaryThresholdPct,
                                     config.preserve_recent, config.preserve_early,
                                     turns, llm)} :
        /\ summaries' = cache_summary(summaries, conversation_id, r.cached)
        /\ last' = [op |-> "summarize_conversation", conv |-> conversation_id,
                    config |-> config, turns |-> turns, llm |-> llm,
                    raised |-> r.raised, summary |-> r.summary,
                    remaining |-> r.turns, early |-> r.early, middle |-> r.middle,
                    cached_before |-> get_cached_summary(conversation_id)]
        /\ UNCHANGED <<now, bindingVars, memVars, restVars, conversations,
                       conversation_created_at, context_cache, cache_hits,
                       cache_misses, cfiles, appended, pending, prevCtx>>

\* the call the request describes, on the summarizer it describes
summarize(conversation_id) ==
    /\ request # None
    /\ request' = None
    /\ summarize_conversation_step(conversation_id, request[1].config,
                                   request[1].turns, request[1].llm)

\* clear_cache(conversation_id): an empty id is taken as no id
clear_cache(conversation_id) ==
    /\ summaries' = IF conversation_id # <<>>
                    THEN Remove(summaries, conversation_id) ELSE EmptyDict
    /\ last' = [op |-> "clear_cache", conv |-> conversation_id,
                before |-> summaries]
    /\ UNCHANGED <<now, bindingVars, memVars, auxVars, conversations,
                   conversation_created_at, context_cache, cache_hits,
                   cache_misses, cfiles, appended, pending, prevCtx>>

\* clear_cache() with no id
clear_cache_all ==
    /\ summaries' = EmptyDict
    /\ last' = [op |-> "clear_cache_all", before |-> summaries]
    /\ UNCHANGED <<now, bindingVars, memVars, auxVars, conversations,
                   conversation_created_at, context_cache, cache_hits,
                   cache_misses, cfiles, appended, pending, prevCtx>>

-----------------------------------------------------------------------------
(* workflow_memory.py *)

\* WorkflowMemory(max_references), scaled down from the default of 50
max_references == 2

\* operations that touch a reference, counted from the last clear
MaxTouches == 4

SpecIds == {"wf_1", "wf_2", "wf_3", "wf_4"}

Name1 == <<"D", "o", "c", " ", "R", "e", "q", "u", "e", "s", "t">>
Name2 == <<"T", "a", "s", "k", "s">>

\* the (name, action) pairs workflows are tracked with
WorkflowInputs ==
    {[name |-> Name1, action |-> "created"],
     [name |-> Name2, action |-> "discussed"]}

Whitespace == {" ", "\t", "\n"}

\* str.split(): the maximal runs of non-whitespace characters
RECURSIVE split(_)
split(str) ==
    IF str = <<>> THEN <<>>
    ELSE IF str[1] \in Whitespace THEN split(Tail(str))
    ELSE LET ends == {i \in 1..Len(str) : str[i] \in Whitespace}
             n == IF ends = {} THEN Len(str) + 1
                  ELSE CHOOSE i \in ends : \A j \in ends : i <= j
         IN  <<SubSeq(str, 1, n - 1)>> \o split(SubSeq(str, n, Len(str)))

\* str.replace(old, new) for a non-empty old
RECURSIVE replace(_, _, _)
replace(str, old, new) ==
    IF Len(str) < Len(old) THEN str
    ELSE IF SubSeq(str, 1, Len(old)) = old
    THEN new \o replace(SubSeq(str, Len(old) + 1, Len(str)), old, new)
    ELSE <<str[1]>> \o replace(Tail(str), old, new)

\* the abbreviations dict of _generate_aliases
abbreviations ==
    {<<<<"a", "p", "p", "r", "o", "v", "a", "l">>, <<"a", "p", "p", "r">>>>,
     <<<<"d", "o", "c", "u", "m", "e", "n", "t">>, <<"d", "o", "c">>>>,
     <<<<"m", "a", "n", "a", "g", "e", "m", "e", "n", "t">>, <<"m", "g", "m", "t">>>>,
     <<<<"r", "e", "q", "u", "e", "s", "t">>, <<"r", "e", "q">>>>,
     <<<<"p", "r", "o", "c", "e", "s", "s">>, <<"p", "r", "o", "c">>>>,
     <<<<"w", "o", "r", "k", "f", "l", "o", "w">>, <<"w", "f">>>>,
     <<<<"s", "y", "s", "t", "e", "m">>, <<"s", "y", "s">>>>,
     <<<<"a", "p", "p", "l", "i", "c", "a", "t", "i", "o", "n">>, <<"a", "p", "p">>>>}

\* _generate_aliases: the aliases as a set (the code returns list(set(...)))
generate_aliases(name) ==
    LET name_lower == Lower(name)
        words == split(name_lower)
    IN  ({name_lower}
         \cup (IF Len(words) > 1 THEN Range(words) ELSE {})
         \cup {replace(name_lower, a[1], a[2]) :
                 a \in {b \in abbreviations : Contains(name_lower, b[1])}})
        \ {<<>>}

\* WorkflowReference(spec_id, name, action, timestamp, aliases, tags)
WorkflowReference(spec_id, name, action, t) ==
    [spec_id |-> spec_id, name |-> name, action |-> action, timestamp |-> t,
     aliases |-> generate_aliases(name), tags |-> {}]

\* list.remove(x): the list without the first occurrence of x
list_remove(order, x) ==
    LET i == CHOOSE j \in 1..Len(order) :
                 order[j] = x /\ \A k \in 1..(j - 1) : order[k] # x
    IN  SubSeq(order, 1, i - 1) \o SubSeq(order, i + 1, Len(order))

\* LRU tracking that appends the id without removing it first
append_again(order, spec_id) == Append(order, spec_id)

\* LRU tracking that leaves an id already listed where it is
keep_order(order, spec_id) ==
    IF \E i \in 1..Len(order) : order[i] = spec_id
    THEN order ELSE Append(order, spec_id)

\* the LRU update of add_workflow and get_workflow: spec_id moves to the end
move_to_end(order, spec_id) ==
    Append(IF \E i \in 1..Len(order) : order[i] = spec_id
           THEN list_remove(order, spec_id) ELSE order,
           spec_id)

\* the number the next touching operation gets
next_touch ==
    1 + (IF DOMAIN touched = {} THEN 0
         ELSE CHOOSE n \in Range(touched) : \A m \in Range(touched) : m <= n)

\* f restricted to the ids the memory holds
restrict(f, refs) == [k \in (DOMAIN f) \cap (DOMAIN refs) |-> f[k]]

\* WorkflowMemory(): no references yet
NewWorkflowMemory == [references |-> EmptyDict, access_order |-> <<>>]

\* WorkflowMemory.add_workflow on the memory with the references refs, the
\* access order order and the capacity max_refs, at time t: the references and
\* the access order it leaves
WorkflowMemory_add_workflow(refs, order, max_refs, spec_id, name, action, t) ==
    LET reference == WorkflowReference(spec_id, name, action, t)
        refs1 == Put(refs, spec_id, reference)
        order1 == move_to_end(order, spec_id)
        trim == Cardinality(DOMAIN refs1) > max_refs
        oldest_id == order1[1]
        order2 == IF trim THEN Tail(order1) ELSE order1
        refs2 == IF trim /\ oldest_id \in DOMAIN refs1
                 THEN Remove(refs1, oldest_id) ELSE refs1
    IN  [references |-> refs2, access_order |-> order2]

\* the number the next operation that touches a reference gets, given the
\* numbers of the earlier ones
next_touch_after(tch) ==
    1 + (IF DOMAIN tch = {} THEN 0
         ELSE CHOOSE n \in Range(tch) : \A m \in Range(tch) : m <= n)

\* add_workflow on the memory m (references, access order and the history of
\* both): the memory it leaves
added(m, max_refs, spec_id, name, action, t) ==
    LET r == WorkflowMemory_add_workflow(m.references, m.access_order, max_refs,
                                         spec_id, name, action, t)
        n == next_touch_after(m.touched)
    IN  [references |-> r.references,
         access_order |-> r.access_order,
         touched |-> restrict(Put(m.touched, spec_id, n), r.references),
         inserted |-> restrict(IF spec_id \in DOMAIN m.references THEN m.inserted
                               ELSE Put(m.inserted, spec_id, n), r.references)]

\* the memory of the model as one value
this_memory ==
    [references |-> references, access_order |-> access_order,
     touched |-> touched, inserted |-> inserted]

\* add_workflow of a WorkflowMemory(max_references=max_refs)
add_workflow_step(max_refs, spec_id, name, action) ==
    /\ next_touch <= MaxTouches
    /\ \E m \in {added(this_memory, max_refs, spec_id, name, action, now)} :
           /\ references' = m.references
           /\ access_order' = m.access_order
           /\ touched' = m.touched
           /\ inserted' = m.inserted
           /\ last' = [op |-> "add_workflow", spec_id |-> spec_id, name |-> name,
                       action |-> action, pre_references |-> references,
                       pre_touched |-> touched, pre_inserted |-> inserted,
                       pre_access_order |-> access_order]
    /\ UNCHANGED <<now, bindingVars, convVars, auxVars>>

add_workflow(spec_id, name, action) ==
    add_workflow_step(max_references, spec_id, name, action)

\* import_references: add_workflow for each dictionary of the list, in order
RECURSIVE imported(_, _, _, _)
imported(m, max_refs, refs_list, t) ==
    IF refs_list = <<>> THEN m
    ELSE imported(added(m, max_refs, Head(refs_list).spec_id, Head(refs_list).name,
                        Head(refs_list).action, t),
                  max_refs, Tail(refs_list), t)

import_references(max_refs, refs_list) ==
    /\ next_touch + Len(refs_list) <= MaxTouches + 1
    /\ \E m \in {imported(this_memory, max_refs, refs_list, now)} :
           /\ references' = m.references
           /\ access_order' = m.access_order
           /\ touched' = m.touched
           /\ inserted' = m.inserted
    /\ last' = [op |-> "import_references", refs_list |-> refs_list,
                pre_references |-> references]
    /\ UNCHANGED <<now, bindingVars, convVars, auxVars>>

\* search_workflows matches the query against the name and the aliases of
\* every reference, ignoring case
search_matches(refs, query) ==
    LET query_lower == Lower(query)
    IN  {id \in DOMAIN refs :
            \/ Contains(Lower(refs[id].name), query_lower)
            \/ \E alias \in refs[id].aliases : Contains(Lower(alias), query_lower)}

\* search_workflows changes nothing: ret is the set of the ids it returns
\* the references of
search_workflows(query) ==
    /\ last' = [op |-> "search_workflows", query |-> query,
                ret |-> search_matches(references, query)]
    /\ UNCHANGED <<now, bindingVars, convVars, memVars, auxVars>>

get_workflow(spec_id) ==
    /\ IF spec_id \notin DOMAIN references
       THEN /\ last' = [op |-> "get_workflow", spec_id |-> spec_id, ret |-> None]
            /\ UNCHANGED memVars
       ELSE /\ next_touch <= MaxTouches
            /\ access_order' = move_to_end(access_order, spec_id)
            /\ touched' = Put(touched, spec_id, next_touch)
            /\ last' = [op |-> "get_workflow", spec_id |-> spec_id,
                        ret |-> Some(references[spec_id])]
            /\ UNCHANGED <<references, inserted>>
    /\ UNCHANGED <<now, bindingVars, convVars, auxVars>>

\* WorkflowMemory.clear
clear ==
    /\ references' = EmptyDict
    /\ access_order' = <<>>
    /\ touched' = EmptyDict
    /\ inserted' = EmptyDict
    /\ last' = [op |-> "clear"]
    /\ UNCHANGED <<now, bindingVars, convVars, auxVars>>

\* list.reverse()
Reverse(seq) == [i \in 1..Len(seq) |-> seq[Len(seq) + 1 - i]]

\* the entries of seq that satisfy keep, in their order
RECURSIVE select_ids(_, _)
select_ids(seq, keep) ==
    IF seq = <<>> THEN <<>>
    ELSE (IF Head(seq) \in keep THEN <<Head(seq)>> ELSE <<>>)
            \o select_ids(Tail(seq), keep)

\* WorkflowMemory.get_recent_workflows(limit): the references of the last
\* limit ids of the access order, most recent first
get_recent_workflows(limit) ==
    LET recent_ids == select_ids(Reverse(NegSlice(access_order, limit)),
                                 DOMAIN references)
    IN  [i \in 1..Len(recent_ids) |-> references[recent_ids[i]]]

\* ConversationManager.get_workflow_memory: the memory of the conversation,
\* created on first use
get_workflow_memory(memories, conversation_id) ==
    IF conversation_id \in DOMAIN memories THEN memories
    ELSE Put(memories, conversation_id, NewWorkflowMemory)

\* ConversationManager.track_workflow
track_workflow(conversation_id, spec_id, name, action) ==
    /\ \E memories \in {get_workflow_memory(workflow_memories, conversation_id)} :
       \E memory \in {memories[conversation_id]} :
          workflow_memories' =
              Put(memories, conversation_id,
                  WorkflowMemory_add_workflow(memory.references, memory.access_order,
                                              max_references,
                                              spec_id, name, action, now))
    /\ last' = [op |-> "track_workflow", conv |-> conversation_id,
                spec_id |-> spec_id, name |-> name, action |-> action]
    /\ UNCHANGED <<now, bindingVars, convVars, memVars, request, sessVars, ioVars,
                   wfcVars, token_usage_history, tracked>>

-----------------------------------------------------------------------------
(* Specification of the Binding Ledger *)

\* the components added last, after construction
InitRest ==
    /\ sessions = EmptyDict
    /\ sfiles = EmptyDict
    /\ issued = EmptyDict
    /\ written = EmptyDict
    /\ corrupted = {}
    /\ workflow_cache = EmptyDict
    /\ workflow_cache_hits = 0
    /\ workflow_cache_misses = 0
    /\ token_usage_history = <<>>
    /\ tracked = <<>>
    /\ workflow_memories = EmptyDict

\* the state after construction, with the summarization request req about
\* to be made and the store st exercised
InitWith(req, st) ==
    /\ now = 0
    /\ bindings = EmptyDict
    /\ bfiles = EmptyDict
    /\ seenBound = EmptyDict
    /\ keptBound = EmptyDict
    /\ conversations = EmptyDict
    /\ conversation_created_at = EmptyDict
    /\ context_cache = EmptyDict
    /\ cache_hits = 0
    /\ cache_misses = 0
    /\ summaries = EmptyDict
    /\ cfiles = EmptyDict
    /\ appended = EmptyDict
    /\ pending = EmptyDict
    /\ prevCtx = EmptyDict
    /\ references = EmptyDict
    /\ access_order = <<>>
    /\ touched = EmptyDict
    /\ inserted = EmptyDict
    /\ request = req
    /\ store = st
    /\ InitRest
    /\ last = [op |-> "init"]

Init == InitWith(None, <<"all", "none">>)

NextBinding ==
    \/ \E c \in ConvIds, s \in SessionIds : create_binding(c, s, "ok")
    \/ \E c \in ConvIds, w \in WorkflowIds : bind_workflow(c, w, "ok")
    \/ \E c \in ConvIds : update_activity(c, "ok")
    \/ \E c \in ConvIds : delete_binding(c, TRUE)
    \/ RestartBindings
    \/ Tick

SpecBinding == Init /\ [][NextBinding]_vars

-----------------------------------------------------------------------------
(* conversation_manager.py: the workflow specification cache *)

WorkflowDoc1 == [specId |-> "wf_A", name |-> "Test"]
WorkflowDoc2 == [specId |-> "wf_A", name |-> "Test, revised"]
WorkflowDocs == {WorkflowDoc1, WorkflowDoc2}

\* the calls of get_workflow_cached a behaviour makes at most
MaxWorkflowLookups == 3

\* CachedWorkflow.is_valid that still accepts an entry whose age is the TTL
CachedWorkflow_is_valid_at_ttl(cached, ttl, t) == (t - cached.cached_at) <= ttl

\* CachedWorkflow.is_valid
CachedWorkflow_is_valid(cached, ttl, t) == (t - cached.cached_at) < ttl

get_workflow_cached(workflow_id) ==
    LET hit == /\ workflow_id \in DOMAIN workflow_cache
               /\ CachedWorkflow_is_valid(workflow_cache[workflow_id], cache_ttl, now)
    IN  /\ workflow_cache_hits + workflow_cache_misses < MaxWorkflowLookups
        /\ workflow_cache_hits' = IF hit THEN workflow_cache_hits + 1
                                  ELSE workflow_cache_hits
        /\ workflow_cache_misses' = IF hit THEN workflow_cache_misses
                                    ELSE workflow_cache_misses + 1
        /\ last' = [op |-> "get_workflow_cached", workflow |-> workflow_id,
                    ret |-> IF hit THEN Some(workflow_cache[workflow_id].workflow_spec)
                            ELSE None,
                    at |-> now,
                    entry |-> IF workflow_id \in DOMAIN workflow_cache
                              THEN Some(workflow_cache[workflow_id]) ELSE None,
                    hits_before |-> workflow_cache_hits,
                    misses_before |-> workflow_cache_misses,
                    context_hits_before |-> cache_hits,
                    context_misses_before |-> cache_misses]
        /\ UNCHANGED <<memVars, telVars, request, sessVars, ioVars, now, bindingVars, convVars,
                       workflow_cache>>

cache_workflow(workflow_id, workflow_spec) ==
    /\ workflow_cache' = Put(workflow_cache, workflow_id,
                             [workflow_spec |-> workflow_spec, cached_at |-> now])
    /\ last' = [op |-> "cache_workflow", workflow |-> workflow_id]
    /\ UNCHANGED <<memVars, telVars, request, sessVars, ioVars, now, bindingVars, convVars,
                   workflow_cache_hits, workflow_cache_misses>>

\* invalidate_workflow_cache: of one workflow, or of all with None
invalidate_workflow_cache(workflow_id) ==
    /\ workflow_cache' = IF workflow_id # None
                         THEN Remove(workflow_cache, workflow_id[1])
                         ELSE EmptyDict
    /\ last' = [op |-> "invalidate_workflow_cache", workflow |-> workflow_id]
    /\ UNCHANGED <<memVars, telVars, request, sessVars, ioVars, now, bindingVars, convVars,
                   workflow_cache_hits, workflow_cache_misses>>

-----------------------------------------------------------------------------
(* token_counter.py.  A text is given to the counter by its number of
   characters; percentages are kept in hundredths of a percent, the two
   decimals round(percentage, 2) keeps. *)

\* TokenCounter.CHARS_PER_TOKEN
CHARS_PER_TOKEN == 4

\* TokenCounter.__init__: the default context_window_limit
context_window_limit == 32000

\* the default thresholds of is_warning_threshold and is_critical_threshold,
\* in percent (threshold * 100)
warning_threshold == 80
critical_threshold == 95

\* len() of an element of a text of the model that stands for several
\* characters; every other element is one character
token_chars(tok) ==
    CASE tok = "User: " -> 6
      [] tok = "Agent: " -> 7
      [] tok = "\n\n" -> 2
      [] tok = "[Early conversation context:]\n" -> 30
      [] tok = "\n\n[Summary of " -> 14
      [] tok = " middle turns:]\n" -> 16
      [] tok = "\n\n[Recent conversation:]" -> 24
      [] tok = "Discussed " -> 10
      [] tok = " topics including:" -> 18
      [] tok = "- " -> 2
      [] tok = "- And " -> 6
      [] tok = " more topics..." -> 15
      [] tok = "..." -> 3
      [] tok = "No conversation history" -> 23
      [] tok = "Workflow creation discussion" -> 28
      [] tok = "Workflow explanation" -> 20
      [] tok = "Workflow modification" -> 21
      [] tok = "Workflow-related question" -> 25
      [] tok \in {"10", "11", "12", "13", "14", "15", "16"} -> 2
      [] OTHER -> 1

\* len(text)
RECURSIVE text_len(_)
text_len(text) ==
    IF text = <<>> THEN 0 ELSE token_chars(Head(text)) + text_len(Tail(text))

\* count_tokens of a text of char_count characters
count_tokens(char_count) ==
    IF char_count = 0 THEN 0 ELSE Max(1, char_count \div CHARS_PER_TOKEN)

\* count_workflow_tokens: of no workflow, or of one whose JSON text has the
\* number of characters given
count_workflow_tokens(workflow_spec) ==
    IF workflow_spec = None THEN 0 ELSE count_tokens(workflow_spec[1])

\* round((total_tokens / limit) * 100, 2), in hundredths: the nearest
\* hundredth; a value half way between two hundredths goes to the one or the
\* other, as its binary floating-point representation lies
percentage_of_limit(total_tokens, limit) ==
    IF limit > 0
    THEN LET q == (total_tokens * 10000) \div limit
             r == (total_tokens * 10000) % limit
         IN  IF 2 * r < limit THEN {q}
             ELSE IF 2 * r > limit THEN {q + 1}
             ELSE {q, q + 1}
    ELSE {0}

\* calculate_usage: the TokenUsage objects the call can return
calculate_usage(system_prompt, history, workflow_spec, limit) ==
    LET system_tokens == count_tokens(system_prompt)
        history_tokens == count_tokens(history)
        workflow_tokens == count_workflow_tokens(workflow_spec)
        total_tokens == system_tokens + history_tokens + workflow_tokens
    IN  {[system_prompt |-> system_tokens,
          conversation_history |-> history_tokens,
          workflow_context |-> workflow_tokens,
          total |-> total_tokens,
          percentage_of_limit |-> p] : p \in percentage_of_limit(total_tokens, limit)}

\* is_warning_threshold with a strict comparison
is_warning_threshold_strict(usage) ==
    usage.percentage_of_limit > warning_threshold * 100

\* TokenUsage.is_warning_threshold()
is_warning_threshold(usage) ==
    usage.percentage_of_limit >= warning_threshold * 100

\* TokenUsage.is_critical_threshold()
is_critical_threshold(usage) ==
    usage.percentage_of_limit >= critical_threshold * 100

-----------------------------------------------------------------------------
(* conversation_manager.py: token telemetry *)

\* _max_telemetry_entries, scaled down from 100
max_telemetry_entries == 2

\* the telemetry history that is never trimmed
telemetry_append_unbounded(history, entry) == Append(history, entry)

\* track_token_usage, lines 480-482: append, then pop(0) when too long
telemetry_append(history, entry) ==
    LET appended_to == Append(history, entry)
    IN  IF Len(appended_to) > max_telemetry_entries
        THEN Tail(appended_to) ELSE appended_to

\* track_token_usage that returns usage, having obtained the context string
\* with the outcome r: the changes to the manager
token_usage_tracked(conversation_id, usage, r) ==
    LET telemetry_entry ==
            [conversation_id |-> conversation_id,
             timestamp |-> isoformat(now),
             total_tokens |-> usage.total,
             percentage |-> usage.percentage_of_limit,
             system_prompt_tokens |-> usage.system_prompt,
             conversation_tokens |-> usage.conversation_history,
             workflow_tokens |-> usage.workflow_context,
             turn_count |-> get_conversation_count(r.convs, conversation_id),
             warning_threshold_exceeded |-> is_warning_threshold(usage),
             critical_threshold_exceeded |-> is_critical_threshold(usage)]
    IN  /\ get_context_string_update(conversation_id, r)
        /\ token_usage_history' = telemetry_append(token_usage_history, telemetry_entry)
        /\ tracked' = Append(tracked, telemetry_entry)
        /\ UNCHANGED <<now, bindingVars, memVars, request, sessVars, ioVars, wfcVars,
                       workflow_memories>>

track_token_usage(conversation_id, system_prompt, workflow_spec) ==
    \E r \in {context_string(conversations, conversation_created_at, context_cache,
                            summaries, cfiles, conversation_id, now)} :
    \E usage \in calculate_usage(system_prompt, text_len(r.ret), workflow_spec,
                                 context_window_limit) :
        /\ token_usage_tracked(conversation_id, usage, r)
        /\ last' = [op |-> "track_token_usage", conv |-> conversation_id,
                    ret |-> usage, history_before |-> token_usage_history]

\* the dict check_token_warning returns, without its texts
token_warning(usage) ==
    IF is_critical_threshold(usage) THEN Some([level |-> "critical", usage |-> usage])
    ELSE IF is_warning_threshold(usage) THEN Some([level |-> "warning", usage |-> usage])
    ELSE None

check_token_warning(conversation_id, system_prompt, workflow_spec) ==
    \E r \in {context_string(conversations, conversation_created_at, context_cache,
                            summaries, cfiles, conversation_id, now)} :
    \E usage \in calculate_usage(system_prompt, text_len(r.ret), workflow_spec,
                                 context_window_limit) :
        /\ token_usage_tracked(conversation_id, usage, r)
        /\ last' = [op |-> "check_token_warning", conv |-> conversation_id,
                    usage |-> usage, ret |-> token_warning(usage),
                    history_before |-> token_usage_history]

-----------------------------------------------------------------------------
(* chat_router.py: chat_with_agent on the ConversationManager.  The handlers
   are coroutines of one event loop: what a handler does between two awaits
   is one step. *)

Requests == {1, 2}

\* the turns earlier requests have appended before the concurrent ones start
MaxEarlierTurns == 2

turns_appended(conversation_id) ==
    IF conversation_id \in DOMAIN appended THEN Len(appended[conversation_id]) ELSE 0

\* chat_with_agent up to `await agent.chat`: reads the context string
chat_with_agent_begin(r, conversation_id) ==
    /\ request[r].pc = "start"
    /\ get_context_string_step(conversation_id)
    /\ request' = [request EXCEPT ![r].pc = "awaiting",
                                  ![r].seen = turns_appended(conversation_id)]

\* chat_with_agent after `await agent.chat`: stores the turn
chat_with_agent_end(r, conversation_id) ==
    /\ request[r].pc = "awaiting"
    /\ add_turn_step(conversation_id, request[r].in, "ok")
    /\ request' = [request EXCEPT ![r].pc = "done",
                                  ![r].turn = Some(ConversationTurn(request[r].in, now)),
                                  ![r].pos = turns_appended(conversation_id) + 1]

\* a request that is served before the concurrent ones arrive
chat_with_agent_earlier(conversation_id, in) ==
    /\ \A r \in Requests : request[r].pc = "start"
    /\ turns_appended(conversation_id) < MaxEarlierTurns
    /\ add_turn(conversation_id, in, "ok")

-----------------------------------------------------------------------------
(* Specification of the Conversation Manager *)

NextConversation ==
    \/ \E c \in TurnLogIds, in \in TurnInputs : add_turn(c, in, "ok")
    \/ \E c \in TurnLogIds : get_conversation_history(c)
    \/ \E c \in TurnLogIds : get_context_string(c)
    \/ \E c \in TurnLogIds : clear_conversation(c, TRUE)
    \/ RestartConversations
    \/ Tick

SpecConversation == Init /\ [][NextConversation]_vars

-----------------------------------------------------------------------------
(* Specification of the three stores under faults: writes and unlinks that
   fail, a process that dies in a write, files that are damaged.  The stores
   share no state: a behaviour exercises the store and meets the kind of
   fault that `store` names. *)

Stores == {"bindings", "turns", "sessions"}

\* the session and the workflow the bindings of these behaviours refer to
StorageSessionIds == {SessA}
StorageWorkflowIds == {"wf_A"}

\* the conversations that have a binding in these behaviours: two where the
\* damage to one file must leave the other loadable, else one
StorageConvIds(fault) == IF fault = "damage" THEN ConvIds ELSE {Conv1}

\* the session ids uuid4 draws in these behaviours, likewise
StorageNewSessionIds(fault) == IF fault = "damage" THEN SessionIds ELSE {SessA}

\* the turn these behaviours append
StorageTurnInputs ==
    {[user_message |-> UserText1, agent_response |-> AgentText1,
      mcp_tools_used |-> <<"create_workflow">>]}

Faults == {"failing_writes", "crashes", "damage"}

InitStorage == \E st \in Stores, fault \in Faults : InitWith(None, <<st, fault>>)

\* the outcomes of a write into the directory, and of an unlink
write_outcomes(fault, files) == IF fault = "failing_writes" THEN outcomes(files) ELSE {"ok"}
unlink_outcomes(fault) == IF fault = "failing_writes" THEN BOOLEAN ELSE {TRUE}

NextBindingStorage(fault) ==
    \/ \E c \in StorageConvIds(fault), s \in StorageSessionIds, io \in write_outcomes(fault, bfiles) :
            create_binding(c, s, io)
    \/ \E c \in StorageConvIds(fault), w \in StorageWorkflowIds, io \in write_outcomes(fault, bfiles) :
            bind_workflow(c, w, io)
    \/ \E c \in StorageConvIds(fault), io \in write_outcomes(fault, bfiles) : update_activity(c, io)
    \/ \E c \in StorageConvIds(fault), ok \in unlink_outcomes(fault) : delete_binding(c, ok)
    \/ RestartBindings
    \/ /\ fault = "crashes"
       /\ \E b \in bindings_to_persist(StorageConvIds(fault), StorageSessionIds,
                                        StorageWorkflowIds),
             point \in CrashPoints :
            crash_in_persist_binding(b, point)
    \/ /\ fault = "damage"
       /\ \E c \in StorageConvIds(fault), damage \in Damages : corrupt_binding_file(c, damage)

NextTurnStorage(fault) ==
    \/ \E c \in TurnLogIds, in \in StorageTurnInputs, io \in write_outcomes(fault, cfiles) :
            add_turn(c, in, io)
    \/ \E c \in TurnLogIds : get_conversation_history(c)
    \/ \E c \in TurnLogIds, ok \in unlink_outcomes(fault) : clear_conversation(c, ok)
    \/ RestartConversations
    \/ /\ fault = "crashes"
       /\ \E c \in TurnLogIds, in \in StorageTurnInputs, point \in CrashPoints :
            crash_in_add_turn(c, in, point)
    \/ /\ fault = "damage"
       /\ \E c \in TurnLogIds, damage \in ConversationDamages :
            corrupt_conversation_file(c, damage)

NextSessionStorage(fault) ==
    \/ \E id \in StorageNewSessionIds(fault), u \in UserIdentifiers, io \in write_outcomes(fault, sfiles) :
            create_session(id, u, io)
    \/ \E id \in StorageNewSessionIds(fault), io \in write_outcomes(fault, sfiles) :
            SessionManager_update_activity(id, io)
    \/ \E id \in StorageNewSessionIds(fault), ok \in unlink_outcomes(fault) : delete_session(id, ok)
    \/ RestartSessions
    \/ /\ fault = "crashes"
       /\ \/ \E id \in StorageNewSessionIds(fault), point \in CrashPoints :
                crash_in_persist_session(id, point)
          \/ \E id \in StorageNewSessionIds(fault), u \in UserIdentifiers, point \in CrashPoints :
                crash_in_create_session(id, u, point)
    \/ /\ fault = "damage"
       /\ \E id \in StorageNewSessionIds(fault), damage \in Damages : corrupt_session_file(id, damage)

NextStorage ==
    \/ \E fault \in Faults : store = <<"bindings", fault>> /\ NextBindingStorage(fault)
    \/ \E fault \in Faults : store = <<"turns", fault>> /\ NextTurnStorage(fault)
    \/ \E fault \in Faults : store = <<"sessions", fault>> /\ NextSessionStorage(fault)
    \/ Tick

SpecStorage == InitStorage /\ [][NextStorage]_vars

-----------------------------------------------------------------------------
(* Specification of the workflow specification cache, next to the context
   cache of a conversation *)

NextWorkflowCache ==
    \/ \E w \in WorkflowIds, d \in WorkflowDocs : cache_workflow(w, d)
    \/ \E w \in WorkflowIds : get_workflow_cached(w)
    \/ \E w \in {None} \cup {Some(x) : x \in WorkflowIds} : invalidate_workflow_cache(w)
    \/ \E c \in TurnLogIds : get_context_string(c)
    \/ Tick

SpecWorkflowCache == Init /\ [][NextWorkflowCache]_vars

-----------------------------------------------------------------------------
(* Specification of the Session Registry: its operations, new processes over
   the same directory, and processes that die in a write *)

NextSession ==
    \/ \E id \in SessionIds, u \in UserIdentifiers : create_session(id, u, "ok")
    \/ \E id \in SessionIds : SessionManager_update_activity(id, "ok")
    \/ \E id \in SessionIds : delete_session(id, TRUE)
    \/ RestartSessions
    \/ \E id \in SessionIds, point \in CrashPoints : crash_in_persist_session(id, point)
    \/ \E id \in SessionIds, u \in UserIdentifiers, point \in CrashPoints :
            crash_in_create_session(id, u, point)
    \/ Tick

SpecSession == Init /\ [][NextSession]_vars

-----------------------------------------------------------------------------
(* Specification of two concurrent chat requests on one conversation *)

InitConcurrent ==
    \E ins \in [Requests -> TurnInputs] :
        InitWith([r \in Requests |->
                    [pc |-> "start", in |-> ins[r], seen |-> 0, turn |-> None,
                     pos |-> 0]],
                 <<"all", "none">>)

NextConcurrent ==
    \/ \E c \in TurnLogIds, in \in TurnInputs : chat_with_agent_earlier(c, in)
    \/ \E r \in Requests, c \in TurnLogIds : chat_with_agent_begin(r, c)
    \/ \E r \in Requests, c \in TurnLogIds : chat_with_agent_end(r, c)
    \/ Tick

SpecConcurrent == InitConcurrent /\ [][NextConcurrent]_vars

-----------------------------------------------------------------------------
(* chat_router.py: chat_with_agent on the ChatBindingManager, for two
   concurrent requests on one conversation in each of which the agent creates
   a workflow.  `binding` of the handler is the object held in _bindings. *)

\* up to `await get_workflow_agent()`: gets or creates the binding
chat_with_agent_get_binding(r) ==
    /\ request[r].pc = "start"
    /\ IF get_binding(request[r].conv) = None
       THEN create_binding_step(request[r].conv, request[r].session, "ok")
       ELSE update_activity_step(request[r].conv, "ok")
    /\ request' = [request EXCEPT ![r].pc = "chatting"]

\* after `await agent.chat` returned the id of a created workflow: the check
\* `workflow_created_id and not binding.is_bound()`
chat_with_agent_created(r) ==
    /\ request[r].pc = "chatting"
    /\ request' = [request EXCEPT
                     ![r].pc = IF is_bound(request[r].conv) THEN "done" ELSE "fetching",
                     ![r].raised = IF is_bound(request[r].conv)
                                   THEN "not called" ELSE "pending"]
    /\ UNCHANGED <<now, bindingVars, convVars, memVars, restVars, last>>

\* after `await client.get`: bind_workflow, whose ValueError is logged
chat_with_agent_bind(r) ==
    /\ request[r].pc = "fetching"
    /\ bind_workflow_step(request[r].conv, request[r].workflow, "ok")
    /\ request' = [request EXCEPT ![r].pc = "done", ![r].raised = last'.raised]

\* `await client.get` raises: bind_workflow is not reached
chat_with_agent_fetch_failed(r) ==
    /\ request[r].pc = "fetching"
    /\ request' = [request EXCEPT ![r].pc = "done", ![r].raised = "not reached"]
    /\ UNCHANGED <<now, bindingVars, convVars, memVars, restVars, last>>

InitConcurrentBind ==
    \E c \in TurnLogIds, ss \in [Requests -> SessionIds],
       ws \in [Requests -> WorkflowIds] :
        InitWith([r \in Requests |->
                    [pc |-> "start", conv |-> c, session |-> ss[r],
                     workflow |-> ws[r], raised |-> "pending"]],
                 <<"all", "none">>)

NextConcurrentBind ==
    \/ \E r \in Requests : chat_with_agent_get_binding(r)
    \/ \E r \in Requests : chat_with_agent_created(r)
    \/ \E r \in Requests : chat_with_agent_bind(r)
    \/ \E r \in Requests : chat_with_agent_fetch_failed(r)
    \/ Tick

SpecConcurrentBind == InitConcurrentBind /\ [][NextConcurrentBind]_vars

-----------------------------------------------------------------------------
(* Specification of the stores under arbitrary keys: the key is drawn at the
   start, and the first turn of the conversation and the binding of that key
   are persisted *)

\* characters of a key: a letter, a digit, the hyphen, the two path
\* separators, the dot and a blank
KeyChars == {"a", "7", "-", "/", "\\", ".", " "}

\* longest key drawn
MaxKeyLen == 3

RECURSIVE KeysOfLen(_)
KeysOfLen(n) ==
    IF n = 0 THEN {<<>>}
    ELSE {Append(k, ch) : k \in KeysOfLen(n - 1), ch \in KeyChars}

Keys == UNION {KeysOfLen(n) : n \in 0..MaxKeyLen}

InitKeys == \E k \in Keys : InitWith([key |-> k], <<"all", "none">>)

NextKeys ==
    \/ \E in \in TurnInputs :
        /\ request.key \notin DOMAIN conversations
        /\ add_turn(request.key, in, "ok")
    \/ \E s \in SessionIds :
        /\ request.key \notin DOMAIN bindings
        /\ create_binding(request.key, s, "ok")
    \/ Tick

SpecKeys == InitKeys /\ [][NextKeys]_vars

-----------------------------------------------------------------------------
(* Specification of the token accounting of a Conversation Manager *)

\* the lengths of the system prompts: none, and those of 25599 and of 30399
\* tokens, one token below 80% and 95% of the limit
SystemPrompts == {0, 102396, 121596}

\* no workflow, or one whose JSON text has 4 characters, which is one token
WorkflowSpecs == {None, Some(4)}

NextTokens ==
    \/ \E c \in TurnLogIds, in \in StorageTurnInputs :
        /\ c \notin DOMAIN conversations
        /\ add_turn(c, in, "ok")
    \/ \E c \in TurnLogIds, p \in SystemPrompts, w \in WorkflowSpecs :
        track_token_usage(c, p, w)
    \/ \E c \in TurnLogIds, p \in SystemPrompts, w \in WorkflowSpecs :
        check_token_warning(c, p, w)

SpecTokens == Init /\ [][NextTokens]_vars

-----------------------------------------------------------------------------
(* Specification of the token telemetry of a Conversation Manager that
   serves several conversations *)

NextTelemetry ==
    \/ \E c \in ConvIds, p \in {0, 102396} : track_token_usage(c, p, None)
    \/ Tick

SpecTelemetry == Init /\ [][NextTelemetry]_vars

-----------------------------------------------------------------------------
(* Specification of the Binding Ledger on conversation ids that differ only
   in characters that are not file-name safe *)

\* "a/b" and "a.b"
UnsafeConvIds == {<<"a", "/", "b">>, <<"a", ".", "b">>}

NextUnsafeBinding ==
    \/ \E c \in UnsafeConvIds, s \in SessionIds : create_binding(c, s, "ok")
    \/ \E c \in UnsafeConvIds, w \in WorkflowIds : bind_workflow(c, w, "ok")
    \/ \E c \in UnsafeConvIds : update_activity(c, "ok")
    \/ \E c \in UnsafeConvIds : delete_binding(c, TRUE)
    \/ Tick

SpecUnsafeBinding == Init /\ [][NextUnsafeBinding]_vars

-----------------------------------------------------------------------------
(* Specification of the Workflow Memory of one conversation *)

NextMemory ==
    \/ \E id \in SpecIds, in \in WorkflowInputs : add_workflow(id, in.name, in.action)
    \/ \E id \in SpecIds : get_workflow(id)
    \/ clear

SpecMemory == Init /\ [][NextMemory]_vars

-----------------------------------------------------------------------------
(* Specification of a Conversation Summarizer with the default configuration *)

\* as Init, with the turn list and the summarization function of the call
InitSummarizer ==
    \E turns \in SampleTurns, llm \in LlmModes :
        InitWith(Some([turns |-> turns, llm |-> llm, config |-> DefaultConfig]),
                 <<"all", "none">>)

NextSummarizer ==
    \/ \E c \in TurnLogIds : summarize(c)
    \/ \E c \in TurnLogIds : clear_cache(c)

SpecSummarizer == InitSummarizer /\ [][NextSummarizer]_vars

-----------------------------------------------------------------------------
(* Specification of a Conversation Summarizer of any configuration: the
   configuration, the turn list and the summarization function are drawn at
   the start *)

\* the longest turn list, and the largest preserve_early and preserve_recent
MaxSegmentTurns == 4
MaxPreserve == 3

\* max_length 1 has every list summarized, max_length 3 those of 2 turns on
SegmentMaxLengths == {1, 3}

\* n turns that differ in their timestamps
NumberedTurns(n) ==
    [i \in 1..n |-> ConversationTurn(CHOOSE in \in TurnInputs : in.mcp_tools_used # <<>>, i)]

InitSegments ==
    \E n \in 0..MaxSegmentTurns, pe \in 0..MaxPreserve, pr \in 0..MaxPreserve,
       ml \in SegmentMaxLengths, llm \in LlmModes :
        InitWith(Some([turns |-> NumberedTurns(n), llm |-> llm,
                       config |-> [max_length |-> ml, preserve_recent |-> pr,
                                   preserve_early |-> pe]]),
                 <<"all", "none">>)

SpecSegments == InitSegments /\ [][NextSummarizer]_vars

-----------------------------------------------------------------------------
(* Specification of the summary cache of a Conversation Summarizer, which is
   called again and again, on two conversations *)

InitSummaryCache ==
    \E pe \in 0..MaxPreserve, pr \in 0..MaxPreserve :
        InitWith(Some([config |-> [max_length |-> 3, preserve_recent |-> pr,
                                   preserve_early |-> pe]]),
                 <<"all", "none">>)

NextSummaryCache ==
    \/ \E c \in ConvIds, n \in 0..MaxSegmentTurns, llm \in LlmModes :
        /\ summarize_conversation_step(c, request[1].config, NumberedTurns(n), llm)
        /\ UNCHANGED request
    \/ \E c \in ConvIds : clear_cache(c)
    \/ clear_cache_all

SpecSummaryCache == InitSummaryCache /\ [][NextSummaryCache]_vars

-----------------------------------------------------------------------------
(* Specification of a ConversationManager that serves two conversations *)

\* the workflows tracked in the two conversations
TrackedSpecIds == {"wf_1", "wf_2"}

\* turns added to each of the two logs
MaxIsolatedTurns == 2

NextIsolation ==
    \/ \E c \in ConvIds, in \in StorageTurnInputs :
          /\ c \in DOMAIN appended => Len(appended[c]) < MaxIsolatedTurns
          /\ add_turn(c, in, "ok")
    \/ \E c \in ConvIds : get_context_string(c)
    \/ \E c \in ConvIds : clear_conversation(c, TRUE)
    \/ \E c \in ConvIds, id \in TrackedSpecIds : track_workflow(c, id, Name1, "created")

SpecIsolation == Init /\ [][NextIsolation]_vars

-----------------------------------------------------------------------------
(* Specification of Workflow Memories of every capacity: the capacity
   max_references of the memory is drawn at construction *)

\* the dictionaries import_references is given
ImportEntries ==
    {[spec_id |-> id, name |-> Name1, action |-> "created"] :
        id \in {"wf_1", "wf_2", "wf_3"}}

\* lists of one or two dictionaries, the same id twice included
ImportLists ==
    {<<d>> : d \in ImportEntries}
        \cup {<<d1, d2>> : d1 \in ImportEntries, d2 \in ImportEntries}

SearchQueries == {<<"d", "o", "c">>, <<"T", "A", "S", "K">>}

InitCapacity ==
    \E n \in 0..max_references :
        InitWith(Some([max_references |-> n]), <<"all", "none">>)

NextCapacity ==
    \/ \E id \in SpecIds, in \in WorkflowInputs :
          add_workflow_step(request[1].max_references, id, in.name, in.action)
    \/ \E id \in SpecIds : get_workflow(id)
    \/ \E query \in SearchQueries : search_workflows(query)
    \/ \E refs_list \in ImportLists :
          import_references(request[1].max_references, refs_list)
    \/ clear

SpecCapacity == InitCapacity /\ [][NextCapacity]_vars

-----------------------------------------------------------------------------
(* Specification of the turn logs of two conversations whose ids differ only
   in characters that the file name replaces *)

NextUnsafeTurns ==
    \/ \E c \in UnsafeConvIds, in \in TurnInputs : add_turn(c, in, "ok")
    \/ \E c \in UnsafeConvIds : clear_conversation(c, TRUE)
    \/ RestartConversations

SpecUnsafeTurns == Init /\ [][NextUnsafeTurns]_vars

-----------------------------------------------------------------------------
(* Specification of the binding of one conversation under writes that fail
   and restarts of the process *)

NextDurableBinding ==
    \/ \E s \in StorageSessionIds, io \in outcomes(bfiles) : create_binding(Conv1, s, io)
    \/ \E w \in WorkflowIds, io \in outcomes(bfiles) : bind_workflow(Conv1, w, io)
    \/ \E io \in outcomes(bfiles) : update_activity(Conv1, io)
    \/ delete_binding(Conv1, TRUE)
    \/ RestartBindings
    \/ Tick

SpecDurableBinding == Init /\ [][NextDurableBinding]_vars

-----------------------------------------------------------------------------
(* Binding Ledger: properties *)

\* C1 (binding monotonicity): bind_workflow on a conversation whose binding
\* is bound to A raises the already-bound ValueError, which names the
\* conversation and A, whatever workflow is asked for (A included), and
\* leaves bound_workflow_id = A and binding_locked_at as they were.
C1_BindingMonotonicity ==
    (last.op = "bind_workflow" /\ last.pre # None
        /\ ChatBinding_is_bound(last.pre[1]))
    => /\ last.raised = "ValueError"
       /\ last.err_conversation = Some(last.conv)
       /\ last.err_workflow = last.pre[1].bound_workflow_id
       /\ last.conv \in DOMAIN bindings
       /\ bindings[last.conv].bound_workflow_id = last.pre[1].bound_workflow_id
       /\ bindings[last.conv].binding_locked_at = last.pre[1].binding_locked_at
       /\ get_bound_workflow(last.conv) = last.pre[1].bound_workflow_id

\* a second bind, of another workflow, at a later time than the first
C1_Witness ==
    /\ last.op = "bind_workflow"
    /\ last.pre # None
    /\ ChatBinding_is_bound(last.pre[1])
    /\ last.pre[1].bound_workflow_id # Some(last.workflow)
    /\ last.pre[1].binding_locked_at # Some(now)

\* C2 as stated (BOUND is terminal for a conversation id): a conversation
\* seen bound to A in this process never later has a binding that is
\* unbound or bound to another workflow, whatever ledger operations follow.
C2_BoundIsTerminal ==
    \A c \in DOMAIN seenBound :
        c \in DOMAIN bindings => bindings[c].bound_workflow_id = Some(seenBound[c])

\* C2 as amended: a conversation seen bound to A stays bound to A for as
\* long as its binding is not deleted; create_binding, bind_workflow and
\* update_activity never unbind or rebind it.
C2_BoundUntilDeleted ==
    \A c \in DOMAIN keptBound :
        /\ c \in DOMAIN bindings
        /\ bindings[c].bound_workflow_id = Some(keptBound[c])

\* a bound conversation on which create_binding or bind_workflow has just acted
C2_Witness ==
    /\ last.op \in {"create_binding", "bind_workflow"}
    /\ last.conv \in DOMAIN keptBound
    /\ last.pre # None
    /\ ChatBinding_is_bound(last.pre[1])

\* C3 (create_binding is idempotent): create_binding on a conversation that
\* has a binding raises nothing, returns that binding, and leaves its
\* session_id, created_at, bound_workflow_id and binding_locked_at unchanged,
\* whatever session id is passed.
C3_CreateIdempotent ==
    (last.op = "create_binding" /\ last.existed)
    => /\ last.raised = "none"
       /\ last.ret = last.pre[1]
       /\ last.conv \in DOMAIN bindings
       /\ bindings[last.conv].session_id = last.pre[1].session_id
       /\ bindings[last.conv].created_at = last.pre[1].created_at
       /\ bindings[last.conv].bound_workflow_id = last.pre[1].bound_workflow_id
       /\ bindings[last.conv].binding_locked_at = last.pre[1].binding_locked_at

\* a duplicate create, with another session id, of a bound binding, later
\* than the binding was created
C3_Witness ==
    /\ last.op = "create_binding"
    /\ last.existed
    /\ last.session # last.pre[1].session_id
    /\ ChatBinding_is_bound(last.pre[1])
    /\ last.pre[1].created_at # now

-----------------------------------------------------------------------------
(* Turn Log and Context Cache: properties *)

\* the last k elements of seq, in order
LastOf(seq, k) ==
    LET n == Min(Len(seq), k)
    IN  [i \in 1..n |-> seq[Len(seq) - n + i]]

C5_AppendResumesHistory ==
    (/\ last.op = "add_turn"
     /\ ~last.pre_in_memory
     /\ last.pre_disk # None
     /\ last.pre_disk[1] # <<>>)
    => /\ conversations[last.conv]
            = LastOf(last.pre_disk[1] \o <<last.turn>>, max_length)
       /\ load_conversation(cfiles, last.conv)
            = Some(LastOf(last.pre_disk[1] \o <<last.turn>>, max_length))

\* C6 as stated (cache hit on repeat): a get_context_string that follows
\* another one for the same conversation within the TTL, with no add_turn or
\* clear between them, returns the same string and is counted as a hit and
\* not as a miss, whatever the state of the log.
C6_CacheHitOnRepeat ==
    (last.op = "get_context_string" /\ last.repeat)
    => /\ last.ret = last.prev[1]
       /\ last.hit
       /\ cache_hits = last.hits_before + 1
       /\ cache_misses = last.misses_before

\* C7 (cache invalidation on append): the first get_context_string after an
\* add_turn on the same conversation is counted as a miss and its result
\* contains the user text and the agent text of the turn added, also when
\* the log was at max_length so that its length did not change.
C7_InvalidationOnAppend ==
    (last.op = "get_context_string" /\ last.pending # None)
    => /\ ~last.hit
       /\ cache_misses = last.misses_before + 1
       /\ cache_hits = last.hits_before
       /\ Contains(last.ret, last.pending[1].user_message)
       /\ Contains(last.ret, last.pending[1].agent_response)

\* a lookup after a turn was added to a log that was already full and had
\* been looked up before
C7_Witness ==
    /\ last.op = "get_context_string"
    /\ last.pending # None
    /\ last.conv \in DOMAIN appended
    /\ Len(appended[last.conv]) > max_length
    /\ last.misses_before > 0

C12_WriteThrough ==
    (last.op = "add_turn")
    => /\ Len(conversations[last.conv]) <= max_length
       /\ get_conversation_path(last.conv) \in DOMAIN cfiles
       /\ LET doc == cfiles[get_conversation_path(last.conv)]
              log == conversations[last.conv]
          IN  /\ Len(doc.turns) = Len(log)
              /\ doc.turn_count = Len(log)
              /\ \A i \in 1..Len(log) :
                    /\ doc.turns[i].user_message = log[i].user_message
                    /\ doc.turns[i].agent_response = log[i].agent_response
                    /\ doc.turns[i].mcp_tools_used = log[i].mcp_tools_used
       /\ conversation_history(EmptyDict, EmptyDict, cfiles, last.conv).ret
            = conversations[last.conv]

\* an add_turn that trimmed the log, which holds turns with and without tools
C12_Witness ==
    /\ last.op = "add_turn"
    /\ last.conv \in DOMAIN appended
    /\ Len(appended[last.conv]) > max_length
    /\ \E i, j \in 1..Len(conversations[last.conv]) :
          /\ conversations[last.conv][i].mcp_tools_used # <<>>
          /\ conversations[last.conv][j].mcp_tools_used = <<>>

-----------------------------------------------------------------------------
(* Workflow Memory: properties *)

\* the entry of refs that was touched least recently according to tch
LeastRecentlyTouched(refs, tch) ==
    CHOOSE v \in DOMAIN refs : \A w \in DOMAIN refs : tch[v] <= tch[w]

\* C9 (LRU eviction): add_workflow of an id that is not in a memory holding
\* max_references entries removes exactly one entry, the one touched least
\* recently by add_workflow or get_workflow; every other entry is kept
\* unchanged and the new one is stored.
C9_LruEviction ==
    (/\ last.op = "add_workflow"
     /\ Cardinality(DOMAIN last.pre_references) = max_references
     /\ last.spec_id \notin DOMAIN last.pre_references)
    => LET victim == LeastRecentlyTouched(last.pre_references, last.pre_touched)
       IN  /\ DOMAIN references
                = ((DOMAIN last.pre_references) \ {victim}) \cup {last.spec_id}
           /\ Cardinality((DOMAIN last.pre_references) \ (DOMAIN references)) = 1
           /\ \A k \in (DOMAIN last.pre_references) \ {victim} :
                 references[k] = last.pre_references[k]
           /\ references[last.spec_id].name = last.name

\* an eviction whose victim is not the entry inserted first, because that
\* entry was read by get_workflow after the others were added
C9_Witness ==
    /\ last.op = "add_workflow"
    /\ Cardinality(DOMAIN last.pre_references) = max_references
    /\ last.spec_id \notin DOMAIN last.pre_references
    /\ LeastRecentlyTouched(last.pre_references, last.pre_inserted)
         \in DOMAIN references
    /\ \E k \in DOMAIN last.pre_references :
         last.pre_touched[k] # last.pre_inserted[k]

-----------------------------------------------------------------------------
(* Summarizer: properties *)

\* C10 (summarization threshold): a summarizer with max_length 15, threshold
\* 0.70, preserve_early 2 and preserve_recent 5 returns the empty summary
\* and all the turns for up to 9 turns, and for 10 to 15 turns a non-empty
\* summary and exactly the last 5 turns in order.
C10_SummarizationThreshold ==
    (last.op = "summarize_conversation")
    => LET n == Len(last.turns)
       IN  /\ n <= 9 => (last.summary = <<>> /\ last.remaining = last.turns)
           /\ (10 <= n /\ n <= 15)
                => /\ last.summary # <<>>
                   /\ Len(last.remaining) = 5
                   /\ \A i \in 1..5 : last.remaining[i] = last.turns[n - 5 + i]

\* a summarization of exactly 10 turns, the smallest list that is summarized
C10_Witness ==
    /\ last.op = "summarize_conversation"
    /\ Len(last.turns) = 10
    /\ last.summary # <<>>

-----------------------------------------------------------------------------
(* Persistence under faults: properties *)

\* what a newly constructed manager finds under a key of a store: None, or
\* Some of the binding, the turns or the session
fresh_load(st, k) ==
    CASE st = "bindings" ->
            IF k \in DOMAIN load_bindings(bfiles)
            THEN Some(load_bindings(bfiles)[k]) ELSE None
      [] st = "turns" -> load_conversation(cfiles, k)
      [] st = "sessions" ->
            IF k \in DOMAIN load_sessions(sfiles)
            THEN Some(load_sessions(sfiles)[k]) ELSE None

\* the object of the last write of the key that completed, if any
last_written(st, k) ==
    IF <<st, k>> \in DOMAIN written THEN Some(written[<<st, k>>]) ELSE None

\* C11 (atomic persistence): when the process dies in a write of key k, with
\* the temp file created, written in part or written in full and not yet
\* renamed, a fresh load of k gives the object of the last completed write of
\* k, or nothing when there was none; the document being written is not seen.
C11_AtomicPersistence ==
    (last.op = "crash" /\ <<last.store, last.key>> \notin corrupted)
        => fresh_load(last.store, last.key) = last_written(last.store, last.key)

\* the process died with a binding written in part whose earlier document
\* differs from the one being written
C11_Witness ==
    /\ last.op = "crash"
    /\ last.store = "bindings"
    /\ last.point = "crash_partial"
    /\ last_written("bindings", last.key) # None
    /\ last_written("bindings", last.key) # Some(last.writing)
    /\ \E p \in DOMAIN bfiles : bfiles[p] = Partial

\* C13 (persistence degradation is not fatal): when the write of add_turn
\* fails, add_turn returns the new length of the log, the turn is the last of
\* the log in memory, and the history and the context string of the same
\* process include it.
C13_DegradationNonFatal ==
    (last.op = "add_turn" /\ ~last.saved) =>
        /\ last.conv \in DOMAIN conversations
        /\ last.ret = Len(conversations[last.conv])
        /\ conversations[last.conv][last.ret] = last.turn
        /\ LET h == conversation_history(conversations, conversation_created_at,
                                         cfiles, last.conv).ret
           IN  h # <<>> /\ h[Len(h)] = last.turn
        /\ Contains(context_string(conversations, conversation_created_at,
                                   context_cache, summaries, cfiles, last.conv,
                                   now).ret,
                    last.turn.user_message)

\* a write of add_turn failed on a log of several turns, and the persisted
\* document is behind the log
C13_Witness ==
    /\ last.op = "add_turn"
    /\ ~last.saved
    /\ Len(conversations[last.conv]) >= 2
    /\ load_conversation(cfiles, last.conv) # None
    /\ load_conversation(cfiles, last.conv) # Some(conversations[last.conv])

\* the last step was a write of key k of store st that completed
completed_write(st, k) ==
    CASE st = "bindings" ->
            /\ last.op \in {"create_binding", "bind_workflow", "update_activity"}
            /\ last.conv = k
            /\ last.io = "ok"
      [] st = "turns" -> last.op = "add_turn" /\ last.conv = k /\ last.saved
      [] st = "sessions" ->
            /\ last.op \in {"create_session", "session_update_activity"}
            /\ last.session = k
            /\ last.io = "ok"

\* what the managers hold in memory under a key of a store
in_memory(st, k) ==
    CASE st = "bindings" -> get_binding(k)
      [] st = "turns" ->
            IF k \in DOMAIN conversations THEN Some(conversations[k]) ELSE None
      [] st = "sessions" -> get_session(k)

StoreKeys(st) ==
    CASE st = "bindings" -> ConvIds
      [] st = "turns" -> TurnLogIds
      [] st = "sessions" -> SessionIds

\* C14 (resynchronisation): right after a write of key k that completed, the
\* persisted document of k is the state of k in memory, for a turn log, a
\* binding and a session alike, and so also when earlier writes of k failed
\* and left the document behind.
C14_Resynchronisation ==
    \A st \in Stores : \A k \in StoreKeys(st) :
        completed_write(st, k) =>
            /\ in_memory(st, k) # None
            /\ fresh_load(st, k) = in_memory(st, k)

\* a write of a binding completed when its document was behind the binding
\* in memory, which a failed write had left bound to a workflow
C14_Witness ==
    /\ store = <<"bindings", "failing_writes">>
    /\ completed_write("bindings", Conv1)
    /\ last.op = "update_activity"
    /\ last.behind
    /\ is_bound(Conv1)

\* whether a newly constructed manager reports nothing under the key: no
\* binding, no session, an empty history
reported_absent(st, k) ==
    CASE st = "turns" ->
            /\ fresh_load(st, k) \in {None, Some(<<>>)}
            /\ conversation_history(EmptyDict, EmptyDict, cfiles, k).ret = <<>>
      [] OTHER -> fresh_load(st, k) = None

\* C15 (corrupt documents are treated as absent): while the document of key
\* k cannot be parsed or lacks a field its loader requires, loading gives a
\* value and not an exception, k is reported as absent, and every other key
\* of the store whose document is intact loads as it was last written.
C15_CorruptTreatedAsAbsent ==
    \A st \in Stores : \A k \in StoreKeys(st) :
        <<st, k>> \in corrupted =>
            /\ reported_absent(st, k)
            /\ \A other \in StoreKeys(st) \ {k} :
                    <<st, other>> \notin corrupted
                        => fresh_load(st, other) = last_written(st, other)

\* a new manager has loaded the bindings while the file of one was damaged
\* and the file of the other held a bound binding
C15_Witness ==
    /\ last.op = "restart"
    /\ BKey(Conv1) \in corrupted
    /\ BKey(Conv2) \notin corrupted
    /\ Conv1 \notin DOMAIN bindings
    /\ is_bound(Conv2)
    /\ get_binding(Conv2) = last_written("bindings", Conv2)

\* the lookups of an id the managers hold nothing for
NotFoundLookups ==
    /\ \A c \in ConvIds \ DOMAIN bindings :
            /\ get_binding(c) = None
            /\ get_bound_workflow(c) = None
            /\ is_bound(c) = FALSE
    /\ \A id \in SessionIds \ DOMAIN sessions : get_session(id) = None

\* a step of update_activity or delete on an id the manager holds nothing
\* for, or of get_conversation_history on a conversation that is neither in
\* memory nor on disk
NotFoundStep ==
    /\ (last'.op \in {"update_activity", "delete_binding"}
            /\ last'.conv \notin DOMAIN bindings)
        => last'.ret = FALSE /\ UNCHANGED <<bindings, bfiles, sessVars, convVars>>
    /\ (last'.op \in {"session_update_activity", "delete_session"}
            /\ last'.session \notin DOMAIN sessions)
        => last'.ret = FALSE /\ UNCHANGED <<sessions, sfiles, bindings, bfiles, convVars>>
    /\ (last'.op = "get_conversation_history"
            /\ last'.conv \notin DOMAIN conversations
            /\ get_conversation_path(last'.conv) \notin DOMAIN cfiles)
        => last'.ret = <<>> /\ UNCHANGED <<convVars, bindings, bfiles, sessVars>>

\* C16 (not-found is a value): for an id with no entry get_session,
\* get_binding and get_bound_workflow give None, is_bound gives False,
\* update_activity and delete of both managers give False,
\* get_conversation_history gives the empty list, and the maps in memory and
\* the files are left as they were.  (Tick is the one step that leaves `last`
\* in place.)
C16_NotFoundIsAValue ==
    []NotFoundLookups /\ [][now' = now => NotFoundStep]_vars

\* delete_binding of an id the ledger does not hold returned False while the
\* file of that id was on disk
C16_Witness ==
    /\ last.op = "delete_binding"
    /\ ~last.existed
    /\ last.ret = FALSE
    /\ get_binding_path(last.conv) \in DOMAIN bfiles

-----------------------------------------------------------------------------
(* Binding Ledger: bindings of a session *)

\* C17 (bindings of a session): get_session_bindings(s) lists exactly the
\* bindings of the ledger whose session_id is s, each once and with the
\* workflow it is bound to now; and right after bind_workflow(c, w) succeeds
\* on a binding created in session s, is_bound(c) holds and the list of s has
\* exactly one binding for c, bound to w.
C17_SessionBindings ==
    /\ \A s \in SessionIds :
        LET r == get_session_bindings(s)
        IN  /\ {r[i] : i \in DOMAIN r} = {b \in Range(bindings) : b.session_id = s}
            /\ \A i, j \in DOMAIN r : r[i] = r[j] => i = j
            /\ \A i \in DOMAIN r :
                    r[i].bound_workflow_id
                        = get_bound_workflow(r[i].conversation_id)
    /\ (last.op = "bind_workflow" /\ last.raised = "none") =>
        LET r == get_session_bindings(bindings[last.conv].session_id)
            mine == {i \in DOMAIN r : r[i].conversation_id = last.conv}
        IN  /\ is_bound(last.conv)
            /\ Cardinality(mine) = 1
            /\ \A i \in mine : r[i].bound_workflow_id = Some(last.workflow)
            /\ (\A c \in DOMAIN bindings :
                    bindings[c].session_id = bindings[last.conv].session_id
                        => c = last.conv)
                => Len(r) = 1

\* a conversation created in one session has just been bound while the
\* ledger holds a binding of another session; the list of the first session
\* is that one binding
C17_Witness ==
    /\ last.op = "bind_workflow"
    /\ last.raised = "none"
    /\ last.conv = Conv1
    /\ bindings[Conv1].session_id = SessA
    /\ Conv2 \in DOMAIN bindings
    /\ bindings[Conv2].session_id = SessB
    /\ Len(get_session_bindings(SessA)) = 1
    /\ get_session_bindings(SessA)[1].bound_workflow_id = Some(last.workflow)

-----------------------------------------------------------------------------
(* Workflow specification cache: properties *)

\* C18 (time-to-live of the workflow cache): get_workflow_cached(id) returns
\* the cached document and adds one to the workflow hit counter exactly when
\* an entry for id exists whose age is below the TTL; with no entry, or an
\* age at or past the TTL, it returns nothing and adds one to the workflow
\* miss counter; the hit and miss counters of the context cache stay as they
\* were.
C18_WorkflowCacheTtl ==
    (last.op = "get_workflow_cached") =>
        LET fresh == /\ last.entry # None
                     /\ last.at - last.entry[1].cached_at < cache_ttl
        IN  /\ fresh => /\ last.ret = Some(last.entry[1].workflow_spec)
                        /\ workflow_cache_hits = last.hits_before + 1
                        /\ workflow_cache_misses = last.misses_before
            /\ ~fresh => /\ last.ret = None
                         /\ workflow_cache_hits = last.hits_before
                         /\ workflow_cache_misses = last.misses_before + 1
            /\ cache_hits = last.context_hits_before
            /\ cache_misses = last.context_misses_before

\* a document was cached and returned once, and a later lookup at the TTL
\* missed, with lookups of the context cache in between
C18_Witness ==
    /\ last.op = "get_workflow_cached"
    /\ last.entry # None
    /\ last.at - last.entry[1].cached_at = cache_ttl
    /\ last.ret = None
    /\ workflow_cache_hits = 1
    /\ workflow_cache_misses = 1
    /\ cache_hits + cache_misses > 0

-----------------------------------------------------------------------------
(* Session Registry: properties *)

\* the fields of a session that never change
same_identity(a, b) ==
    /\ a.session_id = b.session_id
    /\ a.created_at = b.created_at
    /\ a.user_identifier = b.user_identifier

\* the sessions create_session has returned and delete_session has not been
\* called on
live_sessions == {id \in DOMAIN issued : issued[id].returned /\ ~issued[id].deleted}

\* every live session is held by the manager and found by a new manager,
\* with the identity create_session gave it
SessionsRetrievable ==
    \A id \in live_sessions :
        /\ get_session(id) # None
        /\ same_identity(get_session(id)[1], issued[id].session)
        /\ fresh_load("sessions", id) # None
        /\ same_identity(fresh_load("sessions", id)[1], issued[id].session)

\* a step that changes a session the manager holds is update_activity of
\* that session, and changes its last_activity only
SessionsChangeByTouch ==
    \A id \in (DOMAIN sessions) \cap (DOMAIN sessions') :
        sessions'[id] # sessions[id] =>
            /\ last'.op = "session_update_activity"
            /\ last'.session = id
            /\ sessions'[id] = [sessions[id] EXCEPT
                                    !.last_activity = sessions'[id].last_activity]

-----------------------------------------------------------------------------
(* Concurrent requests: properties *)

-----------------------------------------------------------------------------
(* Concurrent binding *)

\* the requests whose bind_workflow call was made
bind_calls == {r \in Requests : request[r].raised \in {"none", "ValueError", "KeyError"}}

\* the requests whose bind_workflow call returned the binding
bind_winners == {r \in Requests : request[r].raised = "none"}

-----------------------------------------------------------------------------
(* Key sanitization *)

\* a file name made of alphanumeric characters, '-' and '_' followed by the
\* extension: it has no path separator and is neither "." nor ".."
is_plain_json_name(p) ==
    /\ Len(p) >= 1
    /\ p[Len(p)] = ".json"
    /\ \A i \in 1..(Len(p) - 1) : p[i] \in Letters \cup Digits \cup {"-", "_"}

\* C22 (key sanitization): whatever the key, once its conversation or its
\* binding has been persisted the store holds one file for it, whose name is
\* made of alphanumeric characters, '-' and '_' only, as many as the key has
\* characters, followed by ".json"; no other file is created.
C22_KeySanitization ==
    /\ (last.op = "add_turn" /\ last.saved) =>
            /\ Cardinality(DOMAIN cfiles) = 1
            /\ \A p \in DOMAIN cfiles :
                    is_plain_json_name(p) /\ Len(p) = Len(last.conv) + 1
    /\ (last.op = "create_binding" /\ last.io = "ok") =>
            /\ Cardinality(DOMAIN bfiles) = 1
            /\ \A p \in DOMAIN bfiles :
                    is_plain_json_name(p) /\ Len(p) = Len(last.conv) + 1
    /\ \A p \in DOMAIN cfiles \cup DOMAIN bfiles : is_plain_json_name(p)

\* the conversation of the key "/.." has been persisted
C22_Witness ==
    /\ last.op = "add_turn" /\ last.saved
    /\ last.conv = <<"/", ".", ".">>
    /\ DOMAIN cfiles = {<<"_", "_", "_", ".json">>}

-----------------------------------------------------------------------------
(* Summarizer: the injected function fails *)

\* the call made last with the summarization function f in place of its own
same_call_with(f) ==
    summarize_conversation(default_max_length, SummaryThresholdPct,
                           default_preserve_recent, default_preserve_early,
                           last.turns, f)

\* the middle segment of the call made last
middle_of_last ==
    Slice(last.turns, default_preserve_early,
          Max(Len(last.turns) - default_preserve_recent, default_preserve_early))

\* C23 (summarizer fallback): when the injected function raises on the middle
\* turns, summarize_conversation does not raise; its summary is not empty,
\* the summary of the middle segment (the one it caches) is the local summary
\* of those turns, and the summary and the tail are the ones the call gives
\* with no injected function.
C23_SummarizerFallback ==
    (/\ last.op = "summarize_conversation"
     /\ last.llm = "raises"
     /\ should_summarize(default_max_length, SummaryThresholdPct, Len(last.turns))
     /\ middle_of_last # <<>>)
    => /\ last.raised = "none"
       /\ last.summary # <<>>
       /\ get_cached_summary(last.conv) = Some(simple_summarize(middle_of_last))
       /\ Contains(last.summary, simple_summarize(middle_of_last))
       /\ last.summary = same_call_with("none").summary
       /\ last.remaining = same_call_with("none").turns

\* a failing function on a list of 12 turns, whose local summary differs from
\* the one the function would have given
C23_Witness ==
    /\ last.op = "summarize_conversation"
    /\ last.llm = "raises"
    /\ Len(last.turns) = 12
    /\ Len(last.remaining) = 5
    /\ last.summary # same_call_with("ok").summary

-----------------------------------------------------------------------------
(* Token accounting: properties *)

\* the TokenUsage of the call made last
usage_of_last == IF last.op = "check_token_warning" THEN last.usage ELSE last.ret

\* the telemetry entry of the call made last
entry_of_last == token_usage_history[Len(token_usage_history)]

\* what check_token_warning has to return for the two flags
level_for(warning, critical, ret) ==
    /\ critical => (ret # None /\ ret[1].level = "critical")
    /\ (warning /\ ~critical) => (ret # None /\ ret[1].level = "warning")
    /\ ~warning => ret = None

\* C24 as stated (token thresholds): the warning flag is set exactly when the
\* total is at least 80% of context_window_limit, the critical flag exactly
\* when it is at least 95%, critical implies warning, and check_token_warning
\* returns the level of the flags.
C24_ThresholdsOnTokens ==
    (last.op \in {"track_token_usage", "check_token_warning"}) =>
        LET u == usage_of_last
            warning == entry_of_last.warning_threshold_exceeded
            critical == entry_of_last.critical_threshold_exceeded
        IN  /\ critical => warning
            /\ warning <=> (100 * u.total >= warning_threshold * context_window_limit)
            /\ critical <=> (100 * u.total >= critical_threshold * context_window_limit)
            /\ last.op = "check_token_warning" => level_for(warning, critical, last.ret)

\* C24 (token thresholds, on the percentage): the warning flag is set exactly
\* when percentage_of_limit, the usage in percent of context_window_limit
\* rounded to two decimals, is at least 80, and the critical flag exactly when
\* it is at least 95: every total of at least 80% (95%) of the limit sets the
\* flag, and no total below 79.995% (94.995%) does.  Critical implies
\* warning, and check_token_warning returns level "critical" when critical,
\* "warning" when warning and not critical, and nothing otherwise.
C24_TokenThresholds ==
    (last.op \in {"track_token_usage", "check_token_warning"}) =>
        LET u == usage_of_last
            warning == entry_of_last.warning_threshold_exceeded
            critical == entry_of_last.critical_threshold_exceeded
        IN  /\ critical => warning
            /\ warning <=> (u.percentage_of_limit >= 8000)
            /\ critical <=> (u.percentage_of_limit >= 9500)
            /\ (100 * u.total >= 80 * context_window_limit) => warning
            /\ warning => (20000 * u.total >= 15999 * context_window_limit)
            /\ (100 * u.total >= 95 * context_window_limit) => critical
            /\ critical => (20000 * u.total >= 18999 * context_window_limit)
            /\ last.op = "check_token_warning" => level_for(warning, critical, last.ret)

\* check_token_warning returns a warning for a total of 25599 tokens, one
\* token below 80% of the limit of 32000
C24_Witness ==
    /\ last.op = "check_token_warning"
    /\ last.usage.total = 25599
    /\ last.usage.percentage_of_limit = 8000
    /\ last.ret # None
    /\ last.ret[1].level = "warning"

\* C25 (telemetry ring bound): after n track_token_usage calls, on any
\* conversations, the telemetry history holds min(n, max_telemetry_entries)
\* entries, which are the entries of the most recent calls in call order.
C25_TelemetryRingBound ==
    LET n == Len(tracked)
        kept == Len(token_usage_history)
    IN  /\ kept = Min(n, max_telemetry_entries)
        /\ \A i \in 1..kept : token_usage_history[i] = tracked[n - kept + i]

\* one call more than the history holds has been made, on two conversations:
\* the entry of the first call is gone and the history starts with the second
C25_Witness ==
    /\ last.op = "track_token_usage"
    /\ Len(tracked) = max_telemetry_entries + 1
    /\ Len(token_usage_history) = max_telemetry_entries
    /\ token_usage_history[1] = tracked[2]
    /\ token_usage_history[1] # tracked[1]
    /\ \E i, j \in DOMAIN token_usage_history :
            token_usage_history[i].conversation_id
                # token_usage_history[j].conversation_id

-----------------------------------------------------------------------------
(* Binding Ledger: restart *)

\* C26 (restart equivalence): after any sequence of create_binding,
\* bind_workflow, update_activity and delete_binding on any conversation ids,
\* with every write succeeding, a manager constructed over the same directory
\* holds the same conversation ids, each with the same session_id and the
\* same bound_workflow_id.
C26_RestartEquivalence ==
    LET loaded == load_bindings(bfiles)
    IN  /\ DOMAIN loaded = DOMAIN bindings
        /\ \A c \in DOMAIN bindings :
                /\ loaded[c].session_id = bindings[c].session_id
                /\ loaded[c].bound_workflow_id = bindings[c].bound_workflow_id

-----------------------------------------------------------------------------
(* Binding Ledger: binding a conversation that has no binding *)

\* a step of bind_workflow on a conversation that has no binding
BindOfUnknown ==
    /\ now' = now
    /\ last'.op = "bind_workflow"
    /\ last'.conv \notin DOMAIN bindings

\* C27 (bind without a binding): bind_workflow(c, w) on a conversation that
\* has no binding raises KeyError, which is not the already-bound ValueError,
\* creates no binding for c and leaves the directory as it was.
C27_BindUnknownRaises ==
    [][BindOfUnknown =>
            /\ last'.raised = "KeyError"
            /\ last'.raised # "ValueError"
            /\ last'.err_conversation = Some(last'.conv)
            /\ bindings' = bindings
            /\ last'.conv \notin DOMAIN bindings'
            /\ bfiles' = bfiles]_vars

\* bind_workflow has raised KeyError for a conversation without a binding
\* while another conversation has one, in memory and on disk
C27_Witness ==
    /\ last.op = "bind_workflow"
    /\ last.raised = "KeyError"
    /\ last.conv \notin DOMAIN bindings
    /\ get_binding_path(last.conv) \notin DOMAIN bfiles
    /\ DOMAIN bindings # {}
    /\ DOMAIN bfiles # {}

-----------------------------------------------------------------------------
(* Summarizer: segmentation *)

\* C28 (summarizer segmentation): on every turn list that should_summarize
\* accepts, for every preserve_early >= 0 and preserve_recent >= 0, the call
\* does not raise; early, middle and tail are consecutive pieces of the list
\* that make it up, so every turn is in exactly one of them; early holds the
\* first preserve_early turns (all of them when there are fewer) and the tail
\* min(preserve_recent, max(0, len(turns) - preserve_early)) turns.
C28_SummarizerSegmentation ==
    (/\ last.op = "summarize_conversation"
     /\ should_summarize(last.config.max_length, SummaryThresholdPct, Len(last.turns)))
    => LET n == Len(last.turns)
           pe == last.config.preserve_early
           pr == last.config.preserve_recent
       IN  /\ last.raised = "none"
           /\ last.early \o last.middle \o last.remaining = last.turns
           /\ Len(last.early) = Min(pe, n)
           /\ Len(last.remaining) = Min(pr, Max(0, n - pe))

\* a summarized list of 3 turns with preserve_early 2 and preserve_recent 3:
\* the two overlap, the middle is empty and the tail holds the third turn
C28_Witness ==
    /\ last.op = "summarize_conversation"
    /\ Len(last.turns) = 3
    /\ last.config.preserve_early = 2
    /\ last.config.preserve_recent = 3
    /\ last.summary # <<>>
    /\ last.middle = <<>>
    /\ last.remaining = <<last.turns[3]>>

-----------------------------------------------------------------------------
(* Summarizer: the summary cache *)

\* the summary of the middle segment the call made last produced
middle_summary_of_last == summarize_middle(last.llm, last.middle).summary

\* what clear_cache(c) and clear_cache() leave of the cached summaries
ClearCacheRemoves ==
    /\ last.op = "clear_cache" =>
            /\ get_cached_summary(last.conv) = None
            /\ summaries = Remove(last.before, last.conv)
    /\ last.op = "clear_cache_all" => summaries = EmptyDict

\* C29 as stated (summary cache): after a summarize_conversation(c, ...) call
\* that returns a non-empty summary, get_cached_summary(c) is the summary of
\* the middle segment that call produced; clear_cache(c) removes the cached
\* summary of c only and clear_cache() all of them.
C29_CacheHoldsLastSummary ==
    /\ (last.op = "summarize_conversation" /\ last.summary # <<>>)
            => get_cached_summary(last.conv) = Some(middle_summary_of_last)
    /\ ClearCacheRemoves

\* C29 (summary cache, middle segment not empty): after a call on c that
\* returns a non-empty summary and whose middle segment is not empty,
\* get_cached_summary(c) is the summary of the middle segment that call
\* produced, which the returned summary contains; a call whose middle segment
\* is empty leaves the cached summary of c as it was.  clear_cache(c) removes
\* the cached summary of c only and clear_cache() all of them.
C29_SummaryCache ==
    /\ (last.op = "summarize_conversation" /\ last.summary # <<>>)
            => /\ Contains(last.summary, middle_summary_of_last)
               /\ last.middle # <<>>
                    => get_cached_summary(last.conv) = Some(middle_summary_of_last)
               /\ last.middle = <<>>
                    => get_cached_summary(last.conv) = last.cached_before
    /\ ClearCacheRemoves

\* a call with a middle segment has replaced the summary an earlier call
\* cached for the conversation, while the other conversation has one too
C29_Witness ==
    /\ last.op = "summarize_conversation"
    /\ last.summary # <<>>
    /\ last.middle # <<>>
    /\ last.cached_before # None
    /\ last.cached_before # get_cached_summary(last.conv)
    /\ Cardinality(DOMAIN summaries) = 2

-----------------------------------------------------------------------------
(* Workflow Memory: tracking an id again *)

\* the last operation was add_workflow of an id the memory already held
ReTracked ==
    /\ last.op = "add_workflow"
    /\ last.spec_id \in DOMAIN last.pre_references

\* C30 (re-tracking): add_workflow of an id already in the memory leaves the
\* number of references unchanged and evicts nothing, every other reference
\* stays as it was, the reference of the id gets the new name and action, and
\* the id becomes the most recently touched one: it is the first of
\* get_recent_workflows and stands once, at the end of the access order the
\* eviction takes its victim from the front of, behind the other ids in the
\* order they had.
C30_ReTracking ==
    ReTracked =>
        /\ Cardinality(DOMAIN references) = Cardinality(DOMAIN last.pre_references)
        /\ DOMAIN references = DOMAIN last.pre_references
        /\ \A k \in (DOMAIN references) \ {last.spec_id} :
              references[k] = last.pre_references[k]
        /\ references[last.spec_id].name = last.name
        /\ references[last.spec_id].action = last.action
        /\ references[last.spec_id].spec_id = last.spec_id
        /\ get_recent_workflows(1) = <<references[last.spec_id]>>
        /\ Head(get_recent_workflows(5)) = references[last.spec_id]
        /\ access_order[Len(access_order)] = last.spec_id
        /\ Cardinality({i \in 1..Len(access_order) :
                            access_order[i] = last.spec_id}) = 1
        /\ SubSeq(access_order, 1, Len(access_order) - 1)
              = list_remove(last.pre_access_order, last.spec_id)
        /\ \A k \in (DOMAIN references) \ {last.spec_id} :
              touched[k] < touched[last.spec_id]

\* a full memory whose least recently touched id is added again with another
\* name and action
C30_Witness ==
    /\ ReTracked
    /\ Cardinality(DOMAIN last.pre_references) = max_references
    /\ last.pre_access_order[1] = last.spec_id
    /\ last.pre_references[last.spec_id].name # last.name
    /\ last.pre_references[last.spec_id].action # last.action

-----------------------------------------------------------------------------
(* Workflow Memory: the most recent references *)

\* the limits get_recent_workflows is asked with
MaxLimit == 3

\* get_recent_workflows(limit) has min(limit, number of references) entries,
\* each touched after the one that follows it
RecentWorkflowsFor(limit) ==
    LET recent == get_recent_workflows(limit)
    IN  /\ Len(recent) = Min(limit, Cardinality(DOMAIN references))
        /\ \A i \in 1..Len(recent) : recent[i] \in Range(references)
        /\ \A i, j \in 1..Len(recent) :
              i < j => touched[recent[i].spec_id] > touched[recent[j].spec_id]
        /\ \A i \in 1..Len(recent) : \A k \in DOMAIN references :
              touched[k] > touched[recent[i].spec_id]
                 => \E j \in 1..(i - 1) : recent[j].spec_id = k

\* C31 (recent workflows): for every limit >= 0, 0 included,
\* get_recent_workflows(limit) returns exactly min(limit, number of stored
\* references) references, from the most recently touched to the least
\* recently touched.
C31_RecentWorkflows == \A limit \in 0..MaxLimit : RecentWorkflowsFor(limit)

\* the same for the limits from 1 on
RecentWorkflowsFromOne == \A limit \in 1..MaxLimit : RecentWorkflowsFor(limit)

-----------------------------------------------------------------------------
(* Sessions and bindings: deletion *)

\* C32 (deletion): delete_session(k) and delete_binding(k) return True exactly
\* when an entry for k existed before the call and False exactly when none
\* did; an entry that existed is gone from memory and from disk after the
\* call, so a manager constructed afresh does not hold it either, also when
\* the removal of the file fails.
C32_DeleteRemoves ==
    /\ last.op = "delete_binding" =>
          /\ last.ret = last.existed
          /\ last.existed =>
                /\ last.conv \notin DOMAIN bindings
                /\ get_binding_path(last.conv) \notin DOMAIN bfiles
                /\ last.conv \notin DOMAIN load_bindings(bfiles)
    /\ last.op = "delete_session" =>
          /\ last.ret = last.existed
          /\ last.existed =>
                /\ last.session \notin DOMAIN sessions
                /\ get_session_path(last.session) \notin DOMAIN sfiles
                /\ last.session \notin DOMAIN load_sessions(sfiles)

\* the part of the above that does not depend on the removal of the file: a
\* call on an absent key returns False and changes nothing it holds, a call on
\* a held key removes it from memory, and a call whose unlink succeeds returns
\* True and leaves no document
DeleteRemovesFromMemory ==
    /\ last.op = "delete_binding" =>
          /\ ~last.existed => ~last.ret
          /\ last.conv \notin DOMAIN bindings
          /\ last.ret => /\ last.existed
                         /\ get_binding_path(last.conv) \notin DOMAIN bfiles
    /\ last.op = "delete_session" =>
          /\ ~last.existed => ~last.ret
          /\ last.session \notin DOMAIN sessions
          /\ last.ret => /\ last.existed
                         /\ get_session_path(last.session) \notin DOMAIN sfiles

-----------------------------------------------------------------------------
(* Conversation Manager: the conversations are kept apart *)

\* dict.get(key): <<>> or <<value>>
entry_of(dict, key) == IF key \in DOMAIN dict THEN Some(dict[key]) ELSE None

\* the operations on one conversation that C33 names
PerConversationOps ==
    {"add_turn", "get_context_string", "clear_conversation", "track_workflow"}

\* C33 (per-conversation isolation): for conversation ids c1 # c2, add_turn,
\* get_context_string, clear_conversation and track_workflow on c1 leave the
\* in-memory turn log of c2, the cached context entry of c2 and the workflow
\* memory of c2 unchanged.
C33_Isolation ==
    [][\A c2 \in ConvIds :
          (last'.op \in PerConversationOps /\ last'.conv # c2)
             => /\ entry_of(conversations', c2) = entry_of(conversations, c2)
                /\ entry_of(context_cache', c2) = entry_of(context_cache, c2)
                /\ entry_of(workflow_memories', c2) = entry_of(workflow_memories, c2)
                /\ entry_of(conversation_created_at', c2)
                      = entry_of(conversation_created_at, c2)]_vars

\* one conversation is cleared while the other holds turns, a cached context
\* and tracked workflows
C33_Witness ==
    /\ last.op = "clear_conversation"
    /\ last.pre_in_memory
    /\ \E c2 \in ConvIds \ {last.conv} :
          /\ c2 \in DOMAIN conversations
          /\ Len(conversations[c2]) = MaxIsolatedTurns
          /\ c2 \in DOMAIN context_cache
          /\ c2 \in DOMAIN workflow_memories
          /\ Len(workflow_memories[c2].access_order) = 2
    /\ last.conv \in DOMAIN workflow_memories

-----------------------------------------------------------------------------
(* Chat handler: the first created workflow is bound *)

\* the requests that have returned their response and in which the
\* conversation was unbound when the agent reported the created workflow
answered_unbound == {r \in Requests : /\ request[r].pc = "done"
                                      /\ request[r].raised # "not called"}

\* C34 (first creation binds): when the agent reports a newly created workflow
\* W for a conversation that is unbound, the conversation is bound by the time
\* the response is returned, to W unless a concurrent request bound it first,
\* so that no later request treats it as unbound; also when fetching the
\* document of W from the builder service fails or raises.
C34_FirstCreationBinds ==
    \A r \in answered_unbound :
        /\ is_bound(request[r].conv)
        /\ request[r].raised # "ValueError"
              => get_bound_workflow(request[r].conv) = Some(request[r].workflow)

\* the same for the requests whose fetch returned, with whatever status
BindsWhenFetchReturns ==
    \A r \in answered_unbound :
        request[r].raised # "not reached"
           => /\ is_bound(request[r].conv)
              /\ request[r].raised # "ValueError"
                    => get_bound_workflow(request[r].conv) = Some(request[r].workflow)

-----------------------------------------------------------------------------
(* Persistence: temp files *)

\* no operation of the run was cut short by the death of the process
no_crash == store[2] # "crashes"

\* C35 (no leftover temp files): after a persist operation has returned,
\* having succeeded or failed part-way (json.dump or os.replace raising), the
\* storage directory holds no temporary file the operation created; for the
\* turn, session and binding stores.
C35_NoLeftoverTempFiles ==
    no_crash => /\ temp_files(cfiles) = {}
                /\ temp_files(sfiles) = {}
                /\ temp_files(bfiles) = {}

\* the same for the turn store alone
NoLeftoverTurnTempFiles == no_crash => temp_files(cfiles) = {}

-----------------------------------------------------------------------------
(* Workflow Memory: structure *)

\* the ids the access order lists
listed_ids == {access_order[i] : i \in 1..Len(access_order)}

\* C36 (structural invariant): in every state reachable by add_workflow,
\* get_workflow, search_workflows, import_references and clear, for every
\* max_references >= 0, the access order lists no id twice, the ids it lists
\* are the keys of the reference map, and there are at most max_references
\* references.
C36_MemoryStructure ==
    /\ \A i, j \in 1..Len(access_order) :
          access_order[i] = access_order[j] => i = j
    /\ listed_ids = DOMAIN references
    /\ Cardinality(DOMAIN references) <= request[1].max_references

\* an import of two workflows into a full memory of capacity 1 that held a
\* third one
C36_Witness ==
    /\ last.op = "import_references"
    /\ Len(last.refs_list) = 2
    /\ request[1].max_references = 1
    /\ Cardinality(DOMAIN last.pre_references) = 1
    /\ DOMAIN last.pre_references # DOMAIN references
    /\ Cardinality(DOMAIN references) = 1

\* a memory of capacity 0 after add_workflow: it holds nothing
MemoryOfCapacityZero ==
    /\ last.op = "add_workflow"
    /\ request[1].max_references = 0
    /\ references = EmptyDict /\ access_order = <<>>

-----------------------------------------------------------------------------
(* Context cache: coherence with the log *)

\* what get_context_string(c) builds from the current log with no cache
recomputed(c) ==
    context_string(conversations, conversation_created_at, EmptyDict, summaries,
                   cfiles, c, now).ret

\* the conversations whose cache entry the next get_context_string would serve
servable == {c \in DOMAIN context_cache :
                CachedContext_is_valid(context_cache[c],
                                       get_conversation_count(conversations, c),
                                       cache_ttl, now)}

\* C37 (cache coherence under interleaving): in every order of
\* get_context_string and add_turn calls on a conversation, no cache entry
\* built from the log before an append is stored after it and served as a
\* hit; every string served as a hit, and every entry that would be served,
\* is what recomputation from the current log gives, also when the log is at
\* max_length and the append leaves the turn count as it was.
C37_CacheCoherence ==
    /\ last.op = "add_turn" => last.conv \notin DOMAIN context_cache
    /\ (last.op = "get_context_string" /\ last.hit)
          => last.ret = recomputed(last.conv)
    /\ \A c \in servable : context_cache[c].context_string = recomputed(c)

\* a hit on a full log: turns were added to a log that had been looked up at
\* max_length, the lookup after the last append missed and the next one hit
C37_Witness ==
    /\ last.op = "get_context_string"
    /\ last.hit
    /\ last.conv \in DOMAIN appended
    /\ Len(appended[last.conv]) > max_length
    /\ Len(conversations[last.conv]) = max_length
    /\ cache_misses >= 2

-----------------------------------------------------------------------------
(* Turn store: one document per conversation *)

\* the step was add_turn or clear_conversation on a conversation other than y
\* and left the turn log y is loaded with as it was, or was something else
KeepsDocumentOf(y) ==
    (last'.op \in {"add_turn", "clear_conversation"} /\ last'.conv # y)
        => load_conversation(cfiles', y) = load_conversation(cfiles, y)

\* C38 (distinct keys never share a persisted document): for conversation ids
\* x # y, also ids that differ only in characters other than alphanumerics,
\* '-' and '_', add_turn or clear_conversation on x never changes or deletes
\* the turn log a manager started afresh loads for y.
C38_DistinctDocuments == [][\A y \in UnsafeConvIds : KeepsDocumentOf(y)]_vars

\* the same for ids made of alphanumerics, '-' and '_'
DistinctDocumentsOfSafeIds == [][\A y \in ConvIds : KeepsDocumentOf(y)]_vars
-----------------------------------------------------------------------------
(* Binding Ledger: durability of the bound workflow *)

\* C39 as stated (durable binding): a conversation that bind_workflow has
\* bound to a workflow, the call having returned, is bound to that workflow
\* after any later restart of the process that reloads the bindings from
\* disk, in every run, also when the disk write of that bind failed.
C39_BoundAfterRestart ==
    [][last'.op = "restart" =>
          \A c \in DOMAIN bindings :
              bindings[c].bound_workflow_id # None
                 => /\ c \in DOMAIN bindings'
                    /\ bindings'[c].bound_workflow_id
                          = bindings[c].bound_workflow_id]_vars

\* C39 (durable binding, write completed): when the write of bind_workflow(c,
\* A), or a later write of the binding of c, completed with the binding bound
\* to A and that document has not been deleted since, the document on disk
\* loads as a binding of c bound to A, whatever writes failed before or after
\* it, and after a restart of the process c is bound to A.
C39_DurableBinding ==
    \A c \in ConvIds :
        (/\ last_written("bindings", c) # None
         /\ last_written("bindings", c)[1].bound_workflow_id # None
         /\ BKey(c) \notin corrupted)
        => /\ fresh_load("bindings", c) # None
           /\ fresh_load("bindings", c)[1].bound_workflow_id
                 = last_written("bindings", c)[1].bound_workflow_id
           /\ last.op = "restart"
                 => /\ c \in DOMAIN bindings
                    /\ bindings[c].bound_workflow_id
                          = last_written("bindings", c)[1].bound_workflow_id

\* the process restarted and the conversation is bound after it, although a
\* write that followed the bind failed and left its temp file
C39_Witness ==
    /\ last.op = "restart"
    /\ is_bound(Conv1)
    /\ temp_files(bfiles) # {}
    /\ last_written("bindings", Conv1) # None
    /\ last_written("bindings", Conv1)[1].last_activity > bindings[Conv1].binding_locked_at[1]

-----------------------------------------------------------------------------
(* Conversation Manager: what a clear leaves *)

\* C40 (clear leaves no derived data): after clear_conversation(c) nothing
\* computed from the removed turns of c can be retrieved from the manager:
\* the context cache has no entry for c and the summarizer's
\* get_cached_summary(c) is absent.
C40_ClearLeavesNothing ==
    last.op = "clear_conversation"
        => /\ last.conv \notin DOMAIN context_cache
           /\ get_cached_summary(last.conv) = None

\* the part about the context cache
ClearDropsCacheEntry ==
    last.op = "clear_conversation" => last.conv \notin DOMAIN context_cache

=============================================================================
